---- MODULE Spec2Model ----
(***************************************************************************)
(* A model of the MessageFormat 2 evaluator of go.expect.digital/mf2       *)
(* (template/template.go): Template.Execute as a state machine over a      *)
(* parsed AST, an input map and the function registry.                     *)
(*                                                                         *)
(* Strings are sequences of one-character strings, so that concatenation,  *)
(* escaping and comparison are computed character by character.            *)
(* Errors are sets of error kinds: the sentinels an error chain wraps      *)
(* (what errors.Is finds), or the name of a plain error; {} is nil.        *)
(***************************************************************************)
EXTENDS Integers, Sequences, FiniteSets, TLC

VARIABLES
    ast,          \* Template.ast.Message: the parsed message
    input,        \* the caller's input map handed to Execute
    variables,    \* executer.variables
    out,          \* what has been written to executer.w
    pc,           \* where the render is
    declIdx,      \* resolveDeclarations: index of the next declaration
    declared,     \* resolveDeclarations: the map m of declared names
    resolutionErr,\* resolveComplexMessage: the recorded benign error
    pattern,      \* resolvePattern: the pattern being rendered
    partIdx,      \* resolvePattern: index of the next part
    patternErr,   \* resolvePattern: the joined resolutionErr
    res,          \* resolveMatcher: the selector results
    pref,         \* resolveMatcher: the preference lists
    filtered,     \* resolveMatcher: filteredVariants
    sortable,     \* sortVariants: the SortableVariant list
    pass,         \* sortVariants: the selector index i of the next pass (1-based)
    err,          \* the error Execute returns
    calls,        \* the registry callables invoked so far, in order
    evaluated,    \* the declarations whose expression has been resolved, in order
    rangeFirst,   \* the Go runtime: the key the next range over a map meets first
    locale,       \* Template.locale, or the locale a caller hands to a function
    callerOptions,\* the options a caller hands to a function: nil, or its map
    earlier,      \* the result of an earlier Execute of the same message and input
    other,        \* a second executer of the same Template, not running at the moment
    text,         \* the MF2 text handed to the parser, or the value handed to the printer
    reparsed      \* what parsing the printed text gives

vars == <<ast, input, variables, out, pc, declIdx, declared, resolutionErr, pattern,
          partIdx, patternErr, res, pref, filtered, sortable, pass, err, calls, evaluated,
          rangeFirst, locale, callerOptions, earlier, other, text, reparsed>>

-----------------------------------------------------------------------------
(* Strings *)

Concat(a, b) == a \o b

RECURSIVE Flatten(_)
Flatten(ss) == IF ss = <<>> THEN <<>> ELSE Head(ss) \o Flatten(Tail(ss))

Contains(seq, x) == \E i \in 1..Len(seq) : seq[i] = x

\* slices.Index: the first index of x in seq (0-based), or -1
Index(seq, x) ==
    IF Contains(seq, x)
    THEN (CHOOSE i \in 1..Len(seq) : seq[i] = x /\ \A j \in 1..(i-1) : seq[j] /= x) - 1
    ELSE -1

Digits == <<"0", "1", "2", "3", "4", "5", "6", "7", "8", "9">>

RECURSIVE FormatNat(_)
FormatNat(n) == IF n < 10 THEN <<Digits[n + 1]>>
                ELSE FormatNat(n \div 10) \o <<Digits[(n % 10) + 1]>>

\* strconv.FormatFloat(f, 'f', -1, 64) of an integral float
FormatFloat(n) == IF n < 0 THEN <<"-">> \o FormatNat(-n) ELSE FormatNat(n)

RECURSIVE pow10(_)
pow10(e) == IF e <= 0 THEN 1 ELSE 10 * pow10(e - 1)

RECURSIVE zeroDigits(_)
zeroDigits(k) == IF k <= 0 THEN <<>> ELSE <<"0">> \o zeroDigits(k - 1)

\* strconv.FormatFloat(f, 'f', -1, 64) of the float n / 10^scale: every digit, no exponent
FormatDecimal(n, scale) ==
    IF scale = 0 THEN FormatFloat(n)
    ELSE (IF n < 0 THEN <<"-">> ELSE <<>>)
         \o FormatNat((IF n < 0 THEN 0 - n ELSE n) \div pow10(scale))
         \o <<".">>
         \o zeroDigits(scale - Len(FormatNat((IF n < 0 THEN 0 - n ELSE n) % pow10(scale))))
         \o FormatNat((IF n < 0 THEN 0 - n ELSE n) % pow10(scale))

\* a faulty replacer whose list has no pair for the backslash
RECURSIVE EscapeNoBackslash(_, _)
EscapeNoBackslash(s, set) ==
    IF s = <<>> THEN <<>>
    ELSE (IF Head(s) \in set \ {"\\"} THEN <<"\\", Head(s)>> ELSE <<Head(s)>>)
         \o EscapeNoBackslash(Tail(s), set)

\* strings.NewReplacer(`\`, `\\`, c, `\`+c, ...).Replace(s) for the characters of set
RECURSIVE Escape(_, _)
Escape(s, set) ==
    IF s = <<>> THEN <<>>
    ELSE (IF Head(s) \in set THEN <<"\\", Head(s)>> ELSE <<Head(s)>>) \o Escape(Tail(s), set)

-----------------------------------------------------------------------------
(* The AST (parse/ast.go) *)

\* Value: nil, Variable, NameLiteral, QuotedLiteral, NumberLiteral; VariantKey adds CatchAllKey.
\* A NumberLiteral is the float64 n / 10^scale, with scale 0 or n not a multiple of 10
NoValue == [k |-> "nil", s |-> <<>>, n |-> 0, scale |-> 0]
Variable(name) == [k |-> "variable", s |-> name, n |-> 0, scale |-> 0]
NameLiteral(s) == [k |-> "name", s |-> s, n |-> 0, scale |-> 0]
QuotedLiteral(s) == [k |-> "quoted", s |-> s, n |-> 0, scale |-> 0]
NumberLiteralOf(n, scale) == [k |-> "number", s |-> <<>>, n |-> n, scale |-> scale]
NumberLiteral(n) == NumberLiteralOf(n, 0)
CatchAllKey == [k |-> "*", s |-> <<>>, n |-> 0, scale |-> 0]
\* ReservedBody: QuotedLiteral or ReservedText
ReservedText(s) == [k |-> "reservedText", s |-> s, n |-> 0, scale |-> 0]

\* Option: an Identifier{Namespace, Name} and a Value
OptionNS(namespace, name, value) == [namespace |-> namespace, name |-> name, value |-> value]
Option(name, value) == OptionNS(<<>>, name, value)
\* Attribute: an Identifier and an optional Value
AttributeNS(namespace, name, value) == [namespace |-> namespace, name |-> name, value |-> value]
Attribute(name, value) == AttributeNS(<<>>, name, value)

\* Annotation: nil, Function, PrivateUseAnnotation, ReservedAnnotation
NoAnnotation ==
    [a |-> "nil", namespace |-> <<>>, name |-> <<>>, options |-> <<>>, start |-> <<>>,
     ReservedBody |-> <<>>]
\* Function with Identifier{Namespace, Name}
FunctionNS(namespace, name, options) ==
    [a |-> "function", namespace |-> namespace, name |-> name, options |-> options,
     start |-> <<>>, ReservedBody |-> <<>>]
Function(name, options) == FunctionNS(<<>>, name, options)
\* Identifier.String
IdentifierString(identifier) ==
    IF identifier.namespace = <<>> THEN identifier.name
    ELSE identifier.namespace \o <<":">> \o identifier.name
PrivateUseAnnotationOf(start, reservedBody) ==
    [a |-> "privateUse", namespace |-> <<>>, name |-> <<>>, options |-> <<>>, start |-> start,
     ReservedBody |-> reservedBody]
ReservedAnnotationOf(start, reservedBody) ==
    [a |-> "reserved", namespace |-> <<>>, name |-> <<>>, options |-> <<>>, start |-> start,
     ReservedBody |-> reservedBody]
PrivateUseAnnotation(start) == PrivateUseAnnotationOf(start, <<>>)
ReservedAnnotation(start) == ReservedAnnotationOf(start, <<>>)

ExpressionWith(operand, annotation, attributes) ==
    [operand |-> operand, annotation |-> annotation, Attributes |-> attributes]
Expression(operand, annotation) == ExpressionWith(operand, annotation, <<>>)
NoExpression == Expression(NoValue, NoAnnotation)

\* PatternPart: Text, Expression, Markup
Text(s) == [p |-> "text", text |-> s, expr |-> NoExpression, Typ |-> "Unspecified"]
ExpressionPart(e) == [p |-> "expression", text |-> <<>>, expr |-> e, Typ |-> "Unspecified"]
\* Markup: its Identifier and Options are kept as the function of expr, its Attributes
\* as the attributes of expr; Typ is Unspecified, Open, Close or SelfClose
MarkupTyped(typ, namespace, name, options, attributes) ==
    [p |-> "markup", text |-> <<>>,
     expr |-> ExpressionWith(NoValue, FunctionNS(namespace, name, options), attributes),
     Typ |-> typ]
MarkupOf(name, options, attributes) == MarkupTyped("Unspecified", <<>>, name, options, attributes)
Markup == [p |-> "markup", text |-> <<>>, expr |-> NoExpression, Typ |-> "Unspecified"]

\* Declaration: InputDeclaration, LocalDeclaration, ReservedStatement
LocalDeclaration(name, e) ==
    [d |-> "local", variable |-> name, expr |-> e, Keyword |-> <<>>, ReservedBody |-> <<>>,
     Expressions |-> <<>>]
InputDeclaration(e) ==
    [d |-> "input", variable |-> e.operand.s, expr |-> e, Keyword |-> <<>>,
     ReservedBody |-> <<>>, Expressions |-> <<>>]
ReservedStatementWith(keyword, reservedBody, expressions) ==
    [d |-> "reserved", variable |-> <<>>, expr |-> NoExpression, Keyword |-> keyword,
     ReservedBody |-> reservedBody, Expressions |-> expressions]
ReservedStatementOf(keyword, expressions) == ReservedStatementWith(keyword, <<>>, expressions)
ReservedStatement == ReservedStatementOf(<<>>, <<>>)

Variant(keys, quotedPattern) == [Keys |-> keys, QuotedPattern |-> quotedPattern]

\* Message: SimpleMessage, ComplexMessage with a QuotedPattern or a Matcher body
SimpleMessage(parts) ==
    [m |-> "simple", Declarations |-> <<>>, body |-> "pattern", QuotedPattern |-> parts,
     MatchStatements |-> <<>>, Variants |-> <<>>]
ComplexPattern(decls, parts) ==
    [m |-> "complex", Declarations |-> decls, body |-> "pattern", QuotedPattern |-> parts,
     MatchStatements |-> <<>>, Variants |-> <<>>]
\* ComplexMessage with ComplexBody nil
ComplexNoBody(decls) ==
    [m |-> "complex", Declarations |-> decls, body |-> "nil", QuotedPattern |-> <<>>,
     MatchStatements |-> <<>>, Variants |-> <<>>]
ComplexMatcher(decls, selectors, variants) ==
    [m |-> "complex", Declarations |-> decls, body |-> "matcher", QuotedPattern |-> <<>>,
     MatchStatements |-> selectors, Variants |-> variants]

VariableString(name) == <<"$">> \o name
QuotedLiteralString(s) == <<"|">> \o Escape(s, {"\\", "|"}) \o <<"|">>
NameLiteralString(s) == s
NumberLiteralString(n, scale) == FormatDecimal(n, scale)

-----------------------------------------------------------------------------
(* Runtime values (Go's any): nil, string, float64 *)

Nil == [t |-> "nil", s |-> <<>>, n |-> 0, scale |-> 0]
Str(s) == [t |-> "string", s |-> s, n |-> 0, scale |-> 0]
\* the float64 n / 10^scale
NumOf(n, scale) == [t |-> "float64", s |-> <<>>, n |-> n, scale |-> scale]
Num(n) == NumOf(n, 0)

\* strconv.FormatFloat(f, 'g', -1, 64), the %v of fmt, of the float n / 10^scale: the
\* shortest digits, in the exponent form when the exponent is below -4 or 6 and more,
\* with an exponent of two digits at least
RECURSIVE TrimZeros(_)
TrimZeros(s) == IF s /= <<>> /\ s[Len(s)] = "0" THEN TrimZeros(SubSeq(s, 1, Len(s) - 1)) ELSE s
ExponentDigits(e) == (IF e < 10 THEN <<"0">> ELSE <<>>) \o FormatNat(e)
FormatExponent(nat, scale) ==
    <<Head(FormatNat(nat))>>
    \o (IF TrimZeros(Tail(FormatNat(nat))) = <<>> THEN <<>>
        ELSE <<".">> \o TrimZeros(Tail(FormatNat(nat))))
    \o (IF Len(FormatNat(nat)) - scale - 1 < 0
        THEN <<"e", "-">> \o ExponentDigits(0 - (Len(FormatNat(nat)) - scale - 1))
        ELSE <<"e", "+">> \o ExponentDigits(Len(FormatNat(nat)) - scale - 1))
FormatMagnitudeG(nat, scale) ==
    IF nat = 0 THEN <<"0">>
    ELSE IF Len(FormatNat(nat)) - scale - 1 < -4 \/ Len(FormatNat(nat)) - scale - 1 >= 6
    THEN FormatExponent(nat, scale)
    ELSE FormatDecimal(nat, scale)
FormatFloatG(n, scale) ==
    IF n < 0 THEN <<"-">> \o FormatMagnitudeG(0 - n, scale) ELSE FormatMagnitudeG(n, scale)

\* fmt.Sprint
Sprint(v) == CASE v.t = "nil" -> <<"<", "n", "i", "l", ">">>
               [] v.t = "string" -> v.s
               [] OTHER -> FormatFloatG(v.n, v.scale)

Result(val, e) == [val |-> val, err |-> e]

-----------------------------------------------------------------------------
(* The function registry: string and number *)

sOpt == <<"o", "p", "t">>
sInteger == <<"i", "n", "t", "e", "g", "e", "r">>
sFoo == <<"f", "o", "o">>
sString == <<"s", "t", "r", "i", "n", "g">>
sNumber == <<"n", "u", "m", "b", "e", "r">>
sStyle == <<"s", "t", "y", "l", "e">>
sSelect == <<"s", "e", "l", "e", "c", "t">>
sSignDisplay == <<"s", "i", "g", "n", "D", "i", "s", "p", "l", "a", "y">>
sDecimal == <<"d", "e", "c", "i", "m", "a", "l">>
sPercent == <<"p", "e", "r", "c", "e", "n", "t">>
sAuto == <<"a", "u", "t", "o">>
sAlways == <<"a", "l", "w", "a", "y", "s">>
sExceptZero == <<"e", "x", "c", "e", "p", "t", "Z", "e", "r", "o">>
sNegative == <<"n", "e", "g", "a", "t", "i", "v", "e">>
sNever == <<"n", "e", "v", "e", "r">>
sMaximumFractionDigits ==
    <<"m","a","x","i","m","u","m","F","r","a","c","t","i","o","n","D","i","g","i","t","s">>

\* stringFunc: Format and Match of the string function
stringFunc(operand, options) ==
    IF operand.t = "nil" THEN Result(Str(<<>>), {"string function requires input"})
    ELSE IF DOMAIN options /= {} THEN Result(Str(<<>>), {"string function takes no options"})
    ELSE Result(Str(Sprint(operand)), {})

\* parseNumberInput: castAs[float64] takes a float64, not a string
parseNumberInput(operand) ==
    IF operand.t = "float64" THEN Result(operand, {}) ELSE Result(Num(0), {"OperandMismatch"})

sCompactDisplay == <<"c", "o", "m", "p", "a", "c", "t", "D", "i", "s", "p", "l", "a", "y">>
sCurrency == <<"c", "u", "r", "r", "e", "n", "c", "y">>
sCurrencyDisplay == <<"c", "u", "r", "r", "e", "n", "c", "y", "D", "i", "s", "p", "l", "a", "y">>
sCurrencySign == <<"c", "u", "r", "r", "e", "n", "c", "y", "S", "i", "g", "n">>
sNotation == <<"n", "o", "t", "a", "t", "i", "o", "n">>
sNumberingSystem == <<"n", "u", "m", "b", "e", "r", "i", "n", "g", "S", "y", "s", "t", "e", "m">>
sUnit == <<"u", "n", "i", "t">>
sUnitDisplay == <<"u", "n", "i", "t", "D", "i", "s", "p", "l", "a", "y">>
sMinimumIntegerDigits == <<"m", "i", "n", "i", "m", "u", "m", "I", "n", "t", "e", "g", "e", "r", "D", "i", "g", "i", "t", "s">>
sMinimumFractionDigits == <<"m", "i", "n", "i", "m", "u", "m", "F", "r", "a", "c", "t", "i", "o", "n", "D", "i", "g", "i", "t", "s">>
sMinimumSignificantDigits == <<"m", "i", "n", "i", "m", "u", "m", "S", "i", "g", "n", "i", "f", "i", "c", "a", "n", "t", "D", "i", "g", "i", "t", "s">>
sMaximumSignificantDigits == <<"m", "a", "x", "i", "m", "u", "m", "S", "i", "g", "n", "i", "f", "i", "c", "a", "n", "t", "D", "i", "g", "i", "t", "s">>
sUseGrouping == <<"u", "s", "e", "G", "r", "o", "u", "p", "i", "n", "g">>
sPlural == <<"p", "l", "u", "r", "a", "l">>
sShort == <<"s", "h", "o", "r", "t">>
sStandard == <<"s", "t", "a", "n", "d", "a", "r", "d">>

\* the choices of oneOf for each option of parseNumberOptions
selects ==
    { <<"p", "l", "u", "r", "a", "l">>, <<"o", "r", "d", "i", "n", "a", "l">>,
      <<"e", "x", "a", "c", "t">> }
useGroupings ==
    { <<"a", "u", "t", "o">>, <<"a", "l", "w", "a", "y", "s">>, <<"n", "e", "v", "e", "r">>,
      <<"m", "i", "n", "2">> }
compactDisplays ==
    { <<"s", "h", "o", "r", "t">>, <<"l", "o", "n", "g">> }
currencyDisplays ==
    { <<"c", "o", "d", "e">>, <<"s", "y", "m", "b", "o", "l">>,
      <<"n", "a", "r", "r", "o", "w", "S", "y", "m", "b", "o", "l">>, <<"n", "a", "m", "e">> }
currencySigns ==
    { <<"s", "t", "a", "n", "d", "a", "r", "d">>,
      <<"a", "c", "c", "o", "u", "n", "t", "i", "n", "g">> }
notations ==
    { <<"s", "t", "a", "n", "d", "a", "r", "d">>,
      <<"s", "c", "i", "e", "n", "t", "i", "f", "i", "c">>,
      <<"e", "n", "g", "i", "n", "e", "e", "r", "i", "n", "g">>,
      <<"c", "o", "m", "p", "a", "c", "t">> }
numberingSystems ==
    { <<"a", "r", "a", "b">>, <<"a", "r", "a", "b", "e", "x", "t">>, <<"b", "a", "l", "i">>,
      <<"b", "e", "n", "g">>, <<"d", "e", "v", "a">>, <<"f", "u", "l", "l", "w", "i", "d", "e">>,
      <<"g", "u", "j", "r">>, <<"g", "u", "r", "u">>, <<"h", "a", "n", "i", "d", "e", "c">>,
      <<"k", "h", "m", "r">>, <<"k", "n", "d", "a">>, <<"l", "a", "o", "o">>,
      <<"l", "a", "t", "n">>, <<"l", "i", "m", "b">>, <<"m", "l", "y", "m">>,
      <<"m", "o", "n", "g">>, <<"m", "y", "m", "r">>, <<"o", "r", "y", "a">>,
      <<"t", "a", "m", "l", "d", "e", "c">>, <<"t", "e", "l", "u">>, <<"t", "h", "a", "i">>,
      <<"t", "i", "b", "t">> }
signDisplays ==
    { <<"a", "u", "t", "o">>, <<"a", "l", "w", "a", "y", "s">>,
      <<"e", "x", "c", "e", "p", "t", "Z", "e", "r", "o">>,
      <<"n", "e", "g", "a", "t", "i", "v", "e">>, <<"n", "e", "v", "e", "r">> }
styles ==
    { <<"d", "e", "c", "i", "m", "a", "l">>, <<"p", "e", "r", "c", "e", "n", "t">> }
unitDisplays ==
    { <<"s", "h", "o", "r", "t">>, <<"n", "a", "r", "r", "o", "w">> }

\* opts.GetString(name, default, oneOf(allowed)): a missing option is the default; an
\* option that is not a string, or not one of the choices, is an UnsupportedOption
GetString(options, name, default, allowed) ==
    IF name \notin DOMAIN options THEN Result(default, {})
    ELSE IF options[name].t /= "string" THEN Result(<<>>, {"UnsupportedOption"})
    ELSE IF options[name].s \notin allowed THEN Result(<<>>, {"UnsupportedOption"})
    ELSE Result(options[name].s, {})

\* the option names parseNumberOptions accepts
numberOptionNames ==
    { sCompactDisplay, sCurrency, sCurrencyDisplay, sCurrencySign, sNotation, sNumberingSystem,
      sSignDisplay, sStyle, sUnit, sUnitDisplay, sMinimumIntegerDigits, sMinimumFractionDigits,
      sMaximumFractionDigits, sMinimumSignificantDigits, sMaximumSignificantDigits, sSelect,
      sUseGrouping }

\* the keys a range over a map can meet first: the order is not specified, any key can.
\* A key the function knows lets the range go on, so only the keys it does not know are
\* told apart: opt and foo, and with them the keys of the message at hand
RangeFirst == {sOpt, sFoo}
optionKeys(e) == {e.annotation.options[i].name : i \in DOMAIN e.annotation.options}
expressionsKeys(expressions) == UNION {optionKeys(expressions[i]) : i \in DOMAIN expressions}
partsKeys(parts) ==
    UNION {IF parts[i].p = "expression" THEN optionKeys(parts[i].expr) ELSE {} :
              i \in DOMAIN parts}
messageKeys(message) ==
    partsKeys(message.QuotedPattern)
    \cup expressionsKeys(message.MatchStatements)
    \cup UNION {partsKeys(message.Variants[i].QuotedPattern) : i \in DOMAIN message.Variants}
    \cup UNION {optionKeys(message.Declarations[i].expr) : i \in DOMAIN message.Declarations}
RangeFirstOf(message) == RangeFirst \cup (messageKeys(message) \ numberOptionNames)
\* the same for one call of a function, with the keys of its options
RangeFirstOfCall(call) == RangeFirst \cup (optionKeys(call) \ numberOptionNames)

\* the Go string of a sequence of characters
RECURSIVE goString(_)
goString(s) == IF s = <<>> THEN "" ELSE s[1] \o goString(Tail(s))

\* fmt.Errorf("unsupported option: %s", k)
unsupportedOption(k) == "unsupported option: " \o goString(k)

IsDigits(s) == s /= <<>> /\ \A i \in DOMAIN s : \E d \in DOMAIN Digits : Digits[d] = s[i]

\* strconv.Atoi of a string of decimal digits
RECURSIVE AtoiDigits(_)
AtoiDigits(s) ==
    IF s = <<>> THEN 0
    ELSE 10 * AtoiDigits(SubSeq(s, 1, Len(s) - 1))
         + (CHOOSE d \in 0..9 : Digits[d + 1] = s[Len(s)])

\* strconv.Atoi: decimal digits after an optional sign
IsInt(s) == s /= <<>> /\ IsDigits(IF Head(s) \in {"+", "-"} THEN Tail(s) ELSE s)
Atoi(s) ==
    IF Head(s) = "-" THEN 0 - AtoiDigits(Tail(s))
    ELSE IF Head(s) = "+" THEN AtoiDigits(Tail(s))
    ELSE AtoiDigits(s)

\* opts.GetInt(name, default): the option is a number, of which the integer part is taken,
\* or a string that is an integer; a missing option is the default
GetIntAny(options, name, default) ==
    IF name \notin DOMAIN options THEN Result(default, {})
    ELSE IF options[name].t = "float64"
    THEN Result(IF options[name].n < 0
                THEN 0 - ((0 - options[name].n) \div pow10(options[name].scale))
                ELSE options[name].n \div pow10(options[name].scale), {})
    ELSE IF options[name].t = "string" /\ IsInt(options[name].s)
    THEN Result(Atoi(options[name].s), {})
    ELSE Result(0, {"UnsupportedOption"})

\* opts.GetInt(name, default, eqOrGreaterThan(least)): the given number is at least `least`
eqOrGreaterThan(given, least) ==
    IF given.err = {} /\ given.val < least THEN Result(0, {"UnsupportedOption"}) ELSE given
GetInt(options, name, default, least) ==
    IF name \notin DOMAIN options THEN Result(default, {})
    ELSE eqOrGreaterThan(GetIntAny(options, name, default), least)

\* the default of maximumFractionDigits for the style decimal
DecimalFractionDigits == 3

LowerLetters ==
    <<"a", "b", "c", "d", "e", "f", "g", "h", "i", "j", "k", "l", "m", "n", "o", "p", "q", "r", "s", "t", "u", "v", "w", "x", "y", "z">>
UpperLetters ==
    <<"A", "B", "C", "D", "E", "F", "G", "H", "I", "J", "K", "L", "M", "N", "O", "P", "Q", "R", "S", "T", "U", "V", "W", "X", "Y", "Z">>
IsLetter(c) == \E i \in DOMAIN LowerLetters : c = LowerLetters[i] \/ c = UpperLetters[i]
ToUpper(c) ==
    IF \E i \in DOMAIN LowerLetters : c = LowerLetters[i]
    THEN UpperLetters[CHOOSE i \in DOMAIN LowerLetters : c = LowerLetters[i]]
    ELSE c

\* the ISO 4217 codes of the CLDR currency table of golang.org/x/text/currency; XXX is
\* in the table and is no currency
sXXX == <<"X", "X", "X">>
isoCurrencies ==
    { <<"A", "D", "P">>, <<"A", "E", "D">>, <<"A", "F", "A">>, <<"A", "F", "N">>, <<"A", "L", "K">>,
      <<"A", "L", "L">>, <<"A", "M", "D">>, <<"A", "N", "G">>, <<"A", "O", "A">>, <<"A", "O", "K">>,
      <<"A", "O", "N">>, <<"A", "O", "R">>, <<"A", "R", "A">>, <<"A", "R", "L">>, <<"A", "R", "M">>,
      <<"A", "R", "P">>, <<"A", "R", "S">>, <<"A", "T", "S">>, <<"A", "U", "D">>, <<"A", "W", "G">>,
      <<"A", "Z", "M">>, <<"A", "Z", "N">>, <<"B", "A", "D">>, <<"B", "A", "M">>, <<"B", "A", "N">>,
      <<"B", "B", "D">>, <<"B", "D", "T">>, <<"B", "E", "C">>, <<"B", "E", "F">>, <<"B", "E", "L">>,
      <<"B", "G", "L">>, <<"B", "G", "M">>, <<"B", "G", "N">>, <<"B", "G", "O">>, <<"B", "H", "D">>,
      <<"B", "I", "F">>, <<"B", "M", "D">>, <<"B", "N", "D">>, <<"B", "O", "B">>, <<"B", "O", "L">>,
      <<"B", "O", "P">>, <<"B", "O", "V">>, <<"B", "R", "B">>, <<"B", "R", "C">>, <<"B", "R", "E">>,
      <<"B", "R", "L">>, <<"B", "R", "N">>, <<"B", "R", "R">>, <<"B", "R", "Z">>, <<"B", "S", "D">>,
      <<"B", "T", "N">>, <<"B", "U", "K">>, <<"B", "W", "P">>, <<"B", "Y", "B">>, <<"B", "Y", "N">>,
      <<"B", "Y", "R">>, <<"B", "Z", "D">>, <<"C", "A", "D">>, <<"C", "D", "F">>, <<"C", "H", "E">>,
      <<"C", "H", "F">>, <<"C", "H", "W">>, <<"C", "L", "E">>, <<"C", "L", "F">>, <<"C", "L", "P">>,
      <<"C", "N", "H">>, <<"C", "N", "X">>, <<"C", "N", "Y">>, <<"C", "O", "P">>, <<"C", "O", "U">>,
      <<"C", "R", "C">>, <<"C", "S", "D">>, <<"C", "S", "K">>, <<"C", "U", "C">>, <<"C", "U", "P">>,
      <<"C", "V", "E">>, <<"C", "Y", "P">>, <<"C", "Z", "K">>, <<"D", "D", "M">>, <<"D", "E", "M">>,
      <<"D", "J", "F">>, <<"D", "K", "K">>, <<"D", "O", "P">>, <<"D", "Z", "D">>, <<"E", "C", "S">>,
      <<"E", "C", "V">>, <<"E", "E", "K">>, <<"E", "G", "P">>, <<"E", "R", "N">>, <<"E", "S", "A">>,
      <<"E", "S", "B">>, <<"E", "S", "P">>, <<"E", "T", "B">>, <<"E", "U", "R">>, <<"F", "I", "M">>,
      <<"F", "J", "D">>, <<"F", "K", "P">>, <<"F", "R", "F">>, <<"G", "B", "P">>, <<"G", "E", "K">>,
      <<"G", "E", "L">>, <<"G", "H", "C">>, <<"G", "H", "S">>, <<"G", "I", "P">>, <<"G", "M", "D">>,
      <<"G", "N", "F">>, <<"G", "N", "S">>, <<"G", "Q", "E">>, <<"G", "R", "D">>, <<"G", "T", "Q">>,
      <<"G", "W", "E">>, <<"G", "W", "P">>, <<"G", "Y", "D">>, <<"H", "K", "D">>, <<"H", "N", "L">>,
      <<"H", "R", "D">>, <<"H", "R", "K">>, <<"H", "T", "G">>, <<"H", "U", "F">>, <<"I", "D", "R">>,
      <<"I", "E", "P">>, <<"I", "L", "P">>, <<"I", "L", "R">>, <<"I", "L", "S">>, <<"I", "N", "R">>,
      <<"I", "Q", "D">>, <<"I", "R", "R">>, <<"I", "S", "J">>, <<"I", "S", "K">>, <<"I", "T", "L">>,
      <<"J", "M", "D">>, <<"J", "O", "D">>, <<"J", "P", "Y">>, <<"K", "E", "S">>, <<"K", "G", "S">>,
      <<"K", "H", "R">>, <<"K", "M", "F">>, <<"K", "P", "W">>, <<"K", "R", "H">>, <<"K", "R", "O">>,
      <<"K", "R", "W">>, <<"K", "W", "D">>, <<"K", "Y", "D">>, <<"K", "Z", "T">>, <<"L", "A", "K">>,
      <<"L", "B", "P">>, <<"L", "K", "R">>, <<"L", "R", "D">>, <<"L", "S", "L">>, <<"L", "T", "L">>,
      <<"L", "T", "T">>, <<"L", "U", "C">>, <<"L", "U", "F">>, <<"L", "U", "L">>, <<"L", "V", "L">>,
      <<"L", "V", "R">>, <<"L", "Y", "D">>, <<"M", "A", "D">>, <<"M", "A", "F">>, <<"M", "C", "F">>,
      <<"M", "D", "C">>, <<"M", "D", "L">>, <<"M", "G", "A">>, <<"M", "G", "F">>, <<"M", "K", "D">>,
      <<"M", "K", "N">>, <<"M", "L", "F">>, <<"M", "M", "K">>, <<"M", "N", "T">>, <<"M", "O", "P">>,
      <<"M", "R", "O">>, <<"M", "R", "U">>, <<"M", "T", "L">>, <<"M", "T", "P">>, <<"M", "U", "R">>,
      <<"M", "V", "P">>, <<"M", "V", "R">>, <<"M", "W", "K">>, <<"M", "X", "N">>, <<"M", "X", "P">>,
      <<"M", "X", "V">>, <<"M", "Y", "R">>, <<"M", "Z", "E">>, <<"M", "Z", "M">>, <<"M", "Z", "N">>,
      <<"N", "A", "D">>, <<"N", "G", "N">>, <<"N", "I", "C">>, <<"N", "I", "O">>, <<"N", "L", "G">>,
      <<"N", "O", "K">>, <<"N", "P", "R">>, <<"N", "Z", "D">>, <<"O", "M", "R">>, <<"P", "A", "B">>,
      <<"P", "E", "I">>, <<"P", "E", "N">>, <<"P", "E", "S">>, <<"P", "G", "K">>, <<"P", "H", "P">>,
      <<"P", "K", "R">>, <<"P", "L", "N">>, <<"P", "L", "Z">>, <<"P", "T", "E">>, <<"P", "Y", "G">>,
      <<"Q", "A", "R">>, <<"R", "H", "D">>, <<"R", "O", "L">>, <<"R", "O", "N">>, <<"R", "S", "D">>,
      <<"R", "U", "B">>, <<"R", "U", "R">>, <<"R", "W", "F">>, <<"S", "A", "R">>, <<"S", "B", "D">>,
      <<"S", "C", "R">>, <<"S", "D", "D">>, <<"S", "D", "G">>, <<"S", "D", "P">>, <<"S", "E", "K">>,
      <<"S", "G", "D">>, <<"S", "H", "P">>, <<"S", "I", "T">>, <<"S", "K", "K">>, <<"S", "L", "L">>,
      <<"S", "O", "S">>, <<"S", "R", "D">>, <<"S", "R", "G">>, <<"S", "S", "P">>, <<"S", "T", "D">>,
      <<"S", "T", "N">>, <<"S", "U", "R">>, <<"S", "V", "C">>, <<"S", "Y", "P">>, <<"S", "Z", "L">>,
      <<"T", "H", "B">>, <<"T", "J", "R">>, <<"T", "J", "S">>, <<"T", "M", "M">>, <<"T", "M", "T">>,
      <<"T", "N", "D">>, <<"T", "O", "P">>, <<"T", "P", "E">>, <<"T", "R", "L">>, <<"T", "R", "Y">>,
      <<"T", "T", "D">>, <<"T", "W", "D">>, <<"T", "Z", "S">>, <<"U", "A", "H">>, <<"U", "A", "K">>,
      <<"U", "G", "S">>, <<"U", "G", "X">>, <<"U", "S", "D">>, <<"U", "S", "N">>, <<"U", "S", "S">>,
      <<"U", "Y", "I">>, <<"U", "Y", "P">>, <<"U", "Y", "U">>, <<"U", "Z", "S">>, <<"V", "E", "B">>,
      <<"V", "E", "F">>, <<"V", "N", "D">>, <<"V", "N", "N">>, <<"V", "U", "V">>, <<"W", "S", "T">>,
      <<"X", "A", "F">>, <<"X", "A", "G">>, <<"X", "A", "U">>, <<"X", "B", "A">>, <<"X", "B", "B">>,
      <<"X", "B", "C">>, <<"X", "B", "D">>, <<"X", "C", "D">>, <<"X", "D", "R">>, <<"X", "E", "U">>,
      <<"X", "F", "O">>, <<"X", "F", "U">>, <<"X", "O", "F">>, <<"X", "P", "D">>, <<"X", "P", "F">>,
      <<"X", "P", "T">>, <<"X", "R", "E">>, <<"X", "S", "U">>, <<"X", "T", "S">>, <<"X", "U", "A">>,
      <<"X", "X", "X">>, <<"Y", "D", "D">>, <<"Y", "E", "R">>, <<"Y", "U", "D">>, <<"Y", "U", "M">>,
      <<"Y", "U", "N">>, <<"Y", "U", "R">>, <<"Z", "A", "L">>, <<"Z", "A", "R">>, <<"Z", "M", "K">>,
      <<"Z", "M", "W">>, <<"Z", "R", "N">>, <<"Z", "R", "Z">>, <<"Z", "W", "D">>, <<"Z", "W", "L">>,
      <<"Z", "W", "R">> }

\* currency.ParseISO: three letters in any case that are a code of the table
ParseISO(s) ==
    IF Len(s) /= 3 THEN Result(<<>>, {"invalid currency value"})
    ELSE IF \E i \in 1..3 : ~IsLetter(s[i]) THEN Result(<<>>, {"invalid currency value"})
    ELSE IF [i \in 1..3 |-> ToUpper(s[i])] \notin isoCurrencies
    THEN Result(<<>>, {"invalid currency value"})
    ELSE Result([i \in 1..3 |-> ToUpper(s[i])], {})

\* the option currency: a string that ParseISO takes and that is not XXX
notXXX(unit) ==
    IF unit.err = {} /\ unit.val = sXXX THEN Result(<<>>, {"empty currency value"}) ELSE unit
parseCurrency(options) ==
    IF sCurrency \notin DOMAIN options THEN Result(<<>>, {})
    ELSE IF options[sCurrency].t /= "string" THEN Result(<<>>, {"invalid currency type"})
    ELSE notXXX(ParseISO(options[sCurrency].s))

\* the zero numberOptions, in place of the nil returned with an error
NoNumberOptions ==
    [Select |-> <<>>, UseGrouping |-> <<>>, CompactDisplay |-> <<>>, Currency |-> <<>>,
     CurrencyDisplay |-> <<>>, CurrencySign |-> <<>>, Notation |-> <<>>,
     NumberingSystem |-> <<>>, SignDisplay |-> <<>>, Style |-> <<>>, Unit |-> 0,
     UnitDisplay |-> <<>>, MinimumIntegerDigits |-> 0, MinimumFractionDigits |-> 0,
     MaximumFractionDigits |-> 0, MinimumSignificantDigits |-> 0,
     MaximumSignificantDigits |-> 0]

\* the options of parseNumberOptions, each as the getter reads it, in the order of the code
readNumberOptions(options) ==
    [Select |-> GetString(options, sSelect, sPlural, selects),
     UseGrouping |-> GetString(options, sUseGrouping, sAuto, useGroupings),
     CompactDisplay |-> GetString(options, sCompactDisplay, sShort, compactDisplays),
     Currency |-> parseCurrency(options),
     CurrencyDisplay |-> GetString(options, sCurrencyDisplay, <<>>, currencyDisplays),
     CurrencySign |-> GetString(options, sCurrencySign, sStandard, currencySigns),
     Notation |-> GetString(options, sNotation, sStandard, notations),
     NumberingSystem |-> GetString(options, sNumberingSystem, <<>>, numberingSystems),
     SignDisplay |-> GetString(options, sSignDisplay, sAuto, signDisplays),
     Style |-> GetString(options, sStyle, sDecimal, styles),
     Unit |-> GetIntAny(options, sUnit, 0),
     UnitDisplay |-> GetString(options, sUnitDisplay, sShort, unitDisplays),
     MinimumIntegerDigits |-> GetInt(options, sMinimumIntegerDigits, 1, 1),
     MinimumFractionDigits |-> GetInt(options, sMinimumFractionDigits, 0, 0),
     MaximumFractionDigits |->
         GetInt(options, sMaximumFractionDigits,
                IF GetString(options, sStyle, sDecimal, styles).val = sDecimal
                THEN DecimalFractionDigits ELSE 0, 0),
     MinimumSignificantDigits |-> GetInt(options, sMinimumSignificantDigits, 1, 1),
     MaximumSignificantDigits |-> GetIntAny(options, sMaximumSignificantDigits, -1)]

\* the order in which parseNumberOptions reads the options
numberOptionOrder ==
    <<"Select", "UseGrouping", "CompactDisplay", "Currency", "CurrencyDisplay", "CurrencySign",
      "Notation", "NumberingSystem", "SignDisplay", "Style", "Unit", "UnitDisplay",
      "MinimumIntegerDigits", "MinimumFractionDigits", "MaximumFractionDigits",
      "MinimumSignificantDigits", "MaximumSignificantDigits">>

\* parseNumberOptions: the range over the options returns at the first key it does not
\* know; then the options are read in order, and the first one that fails is the error
unknownOption(unknown) ==
    IF rangeFirst \in unknown THEN rangeFirst ELSE CHOOSE k \in unknown : TRUE
firstFailed(read, failed) ==
    IF failed = {} THEN Result([f \in DOMAIN read |-> read[f].val], {})
    ELSE Result(NoNumberOptions,
                read[numberOptionOrder[CHOOSE i \in failed : \A j \in failed : i <= j]].err)
numberOptionsOf(read) ==
    firstFailed(read, {i \in DOMAIN numberOptionOrder : read[numberOptionOrder[i]].err /= {}})
parseNumberOptions(options) ==
    IF DOMAIN options \ numberOptionNames /= {}
    THEN Result(NoNumberOptions,
                {unsupportedOption(unknownOption(DOMAIN options \ numberOptionNames))})
    ELSE numberOptionsOf(readNumberOptions(options))

-----------------------------------------------------------------------------
(* message.NewPrinter(locale).Sprint(number.Decimal(value, opts...)) of                *)
(* golang.org/x/text for the locales en-US and lv: the digits of the float             *)
(* n / 10^scale, rounded to the fraction and significant digits asked for, grouped by  *)
(* three, padded to the minimum integer and fraction digits, with the symbols of the   *)
(* locale                                                                              *)

\* language.AmericanEnglish, language.Latvian
AmericanEnglish == "en-US"
Latvian == "lv"
Locales == {AmericanEnglish, Latvian}

\* the symbols of the locale: the decimal and the group separator (a no-break space in
\* Latvian); the patterns #,##0.### and #,##0% and the signs are the same in both
SymDecimal(loc) == IF loc = Latvian THEN "," ELSE "."
SymGroup(loc) == IF loc = Latvian THEN " " ELSE ","

\* the decimal digits of a natural number, the most significant first; none for 0
RECURSIVE digitsOf(_)
digitsOf(n) == IF n = 0 THEN <<>> ELSE digitsOf(n \div 10) \o <<n % 10>>

\* trim: the digits without trailing zeros
RECURSIVE trim(_)
trim(digits) ==
    IF digits /= <<>> /\ digits[Len(digits)] = 0
    THEN trim(SubSeq(digits, 1, Len(digits) - 1)) ELSE digits

\* the uint8 and int16 fields of number.Formatter: MinIntegerDigits, MinFractionDigits and
\* MaxFractionDigits cap a larger option, SetPrecision converts it
capAt(n, most) == IF n > most THEN most ELSE n
int16(n) == ((n + 32768) % 65536) - 32768

\* the digits of the float n / 10^scale, and the number of its integer digits
Decimal(n, scale) ==
    [Digits |-> trim(digitsOf(IF n < 0 THEN 0 - n ELSE n)),
     Exp |-> IF n = 0 THEN 0 ELSE Len(digitsOf(IF n < 0 THEN 0 - n ELSE n)) - scale,
     Neg |-> n < 0]

\* the float64 nearest to nat / 10^scale is the quotient of nat * 2^k by 5^scale, k chosen
\* to give 53 bits, rounded to nearest: it is exact when the remainder is 0, and above
\* the decimal when the remainder is over the half of 5^scale
RECURSIVE pow5(_)
pow5(e) == IF e <= 0 THEN 1 ELSE 5 * pow5(e - 1)
RECURSIVE doubleMod(_, _, _)
doubleMod(r, k, modulus) == IF k <= 0 THEN r ELSE doubleMod((2 * r) % modulus, k - 1, modulus)
RECURSIVE doublings(_, _)
doublings(nat, least) == IF nat >= least THEN 0 ELSE 1 + doublings(2 * nat, least)
RECURSIVE halvings(_)
halvings(nat) == IF nat <= 1 THEN 0 ELSE 1 + halvings(nat \div 2)
mantissaShift(nat, scale) ==
    IF nat >= pow5(scale) THEN 52 + scale - halvings(nat \div pow5(scale))
    ELSE 52 + scale + doublings(nat, pow5(scale))
floatExact(nat, scale) == nat % pow5(scale) = 0
floatAbove(nat, scale) ==
    2 * doubleMod(nat % pow5(scale), mantissaShift(nat, scale) - scale, pow5(scale))
        > pow5(scale)

\* roundUp's loop: the last of the first n digits that is below 9, or 0
RECURSIVE belowNine(_, _)
belowNine(digits, n) ==
    IF n > 0 /\ digits[n] >= 9 THEN belowNine(digits, n - 1) ELSE n

\* Decimal.roundUp(n): the digits; the exponent is one more when every digit is a 9
roundUp(digits, n) ==
    IF belowNine(digits, n) = 0 THEN <<1>>
    ELSE SubSeq(digits, 1, belowNine(digits, n) - 1) \o <<digits[belowNine(digits, n)] + 1>>

\* Decimal.roundDown(n)
roundDown(digits, n) == trim(SubSeq(digits, 1, n))

\* Decimal.round(ToNearestEven, n)
round(digits, n) ==
    IF n < 0 \/ n >= Len(digits) THEN digits
    ELSE IF digits[n + 1] > 5
            \/ (digits[n + 1] = 5 /\ (Len(digits) > n + 1 \/ n = 0 \/ digits[n] % 2 = 1))
    THEN roundUp(digits, n)
    ELSE roundDown(digits, n)

\* strconv.AppendFloat with a precision: the float is rounded to its first n digits, to
\* the nearest, and to the even digit when the float itself is the half
strconvUp(d, n, nat, scale) ==
    IF d.Digits[n + 1] /= 5 THEN d.Digits[n + 1] > 5
    ELSE IF Len(d.Digits) > n + 1 THEN TRUE
    ELSE IF floatExact(nat, scale) THEN n > 0 /\ d.Digits[n] % 2 = 1
    ELSE floatAbove(nat, scale)
strconvRound(d, n, nat, scale) ==
    IF n >= Len(d.Digits) THEN d
    ELSE IF n < 0 THEN [Digits |-> <<>>, Exp |-> 0, Neg |-> d.Neg]
    ELSE IF strconvUp(d, n, nat, scale)
    THEN [Digits |-> roundUp(d.Digits, n),
          Exp |-> IF belowNine(d.Digits, n) = 0 THEN d.Exp + 1 ELSE d.Exp, Neg |-> d.Neg]
    ELSE [Digits |-> roundDown(d.Digits, n),
          Exp |-> IF roundDown(d.Digits, n) = <<>> THEN 0 ELSE d.Exp, Neg |-> d.Neg]

\* Decimal.ConvertFloat and normalize: strconv rounds to RoundSignificantDigits digits
\* when there are no fraction digits and a precision, and to RoundFractionDigits
\* fraction digits when the precision is 0; otherwise the digits are the shortest ones
ConvertFloat(n, scale, maxSig, maxFrac, digitShift) ==
    IF maxFrac = 0 /\ maxSig > 0
    THEN strconvRound(Decimal(n, scale), maxSig, IF n < 0 THEN 0 - n ELSE n, scale)
    ELSE IF maxSig = 0 /\ maxFrac >= 0
    THEN strconvRound(Decimal(n, scale), Decimal(n, scale).Exp + maxFrac + digitShift,
                      IF n < 0 THEN 0 - n ELSE n, scale)
    ELSE Decimal(n, scale)

\* the number of digits decimalVisibleDigits rounds to
roundTo(digits, exp, maxSig, maxFrac) ==
    LET p == IF maxSig > 0 THEN maxSig ELSE Len(digits)
        q == IF maxFrac >= 0 /\ exp + maxFrac < p THEN exp + maxFrac ELSE p
    IN  IF maxFrac >= 0 /\ q < 0 THEN 0 ELSE q

\* decimalVisibleDigits: DigitShift is 2 for a percent; End is the position after the
\* last digit shown; the exponent is the one before the rounding
visibleDigits(digits, exp, neg, minFrac) ==
    IF digits = <<>> THEN [Digits |-> digits, Exp |-> 0, End |-> minFrac, Neg |-> neg]
    ELSE [Digits |-> digits, Exp |-> exp, Neg |-> neg,
          End |-> IF exp + minFrac > Len(digits) THEN exp + minFrac ELSE Len(digits)]
decimalVisibleDigits(d, digitShift, maxSig, maxFrac, minFrac) ==
    visibleDigits(round(d.Digits, roundTo(d.Digits, d.Exp + digitShift, maxSig, maxFrac)),
                  d.Exp + digitShift, d.Neg, minFrac)

\* Formatter.needsSep, for the grouping sizes 3 and 0 of the patterns of both locales
needsSep(pos) ==
    IF pos - 1 = 0 THEN FALSE
    ELSE IF pos - 1 = 3 THEN TRUE
    ELSE IF pos - 1 < 3 THEN FALSE
    ELSE (pos - 1 - 3) % 3 = 0

digitChar(d) == Digits[d + 1]
groupSep(pos, loc) == IF needsSep(pos) THEN <<SymGroup(loc)>> ELSE <<>>

\* appendDecimal: the leading zeros, from position i down to numInt + 1
RECURSIVE leadingZeros(_, _, _)
leadingZeros(i, numInt, loc) ==
    IF i > numInt THEN <<"0">> \o groupSep(i, loc) \o leadingZeros(i - 1, numInt, loc)
    ELSE <<>>

\* appendDecimal: the integer digits from index i (from 0) on, zeros after the last digit
RECURSIVE integerDigits(_, _, _, _)
integerDigits(intDigits, i, numInt, loc) ==
    IF i >= numInt THEN <<>>
    ELSE <<IF i < Len(intDigits) THEN digitChar(intDigits[i + 1]) ELSE "0">>
         \o groupSep(numInt - i, loc) \o integerDigits(intDigits, i + 1, numInt, loc)

\* appendDecimal: the fraction digits: zeros up to the exponent, the digits, zeros up to
\* numFrac
RECURSIVE fractionDigits(_, _, _, _)
fractionDigits(fracDigits, zeros, i, numFrac) ==
    IF i < zeros THEN <<"0">> \o fractionDigits(fracDigits, zeros, i + 1, numFrac)
    ELSE IF i - zeros < Len(fracDigits)
    THEN <<digitChar(fracDigits[i - zeros + 1])>>
         \o fractionDigits(fracDigits, zeros, i + 1, numFrac)
    ELSE IF i < numFrac THEN <<"0">> \o fractionDigits(fracDigits, zeros, i + 1, numFrac)
    ELSE <<>>

\* appendDecimal, between the affixes
appendDecimal(n, minInt, loc) ==
    LET numInt == IF n.Exp > 0 THEN n.Exp ELSE 0
        intDigits == IF n.Exp > 0 THEN SubSeq(n.Digits, 1, capAt(n.Exp, Len(n.Digits)))
                     ELSE <<>>
        fracDigits == IF n.Exp > 0 THEN SubSeq(n.Digits, n.Exp + 1, Len(n.Digits))
                      ELSE n.Digits
    IN  leadingZeros(minInt, numInt, loc) \o integerDigits(intDigits, 0, numInt, loc)
        \o (IF n.End - n.Exp > 0 THEN <<SymDecimal(loc)>> ELSE <<>>)
        \o fractionDigits(fracDigits, IF n.Exp < 0 THEN 0 - n.Exp ELSE 0, 0, n.End - n.Exp)

\* Formatter.Format: the digits of the value as the options round them, between the
\* affixes
formatDigits(n, scale, digitShift, maxSig, maxFrac, minFrac, minInt, loc) ==
    appendDecimal(decimalVisibleDigits(ConvertFloat(n, scale, maxSig, maxFrac, digitShift),
                                       digitShift, maxSig, maxFrac, minFrac),
                  minInt, loc)

\* p.Sprint(number.Decimal(value, numberOpts...)) and p.Sprint(number.Percent(...))
formatNumber(value, opts, loc) ==
    (IF value.n < 0 THEN <<"-">> ELSE <<>>)
    \o formatDigits(value.n, value.scale, IF opts.Style = sPercent THEN 2 ELSE 0,
                    int16(opts.MaximumSignificantDigits),
                    capAt(opts.MaximumFractionDigits, 32767),
                    capAt(opts.MinimumFractionDigits, 255),
                    capAt(opts.MinimumIntegerDigits, 255), loc)
    \o (IF opts.Style = sPercent THEN <<"%">> ELSE <<>>)

\* a faulty numberFunc whose signDisplay=always gives zero no sign
signDisplayNoPlusZero(display, n, printed) ==
    CASE display = sAlways /\ n > 0 -> <<"+">> \o printed
      [] display = sExceptZero /\ n > 0 -> <<"+">> \o printed
      [] display = sNever /\ n < 0 -> Tail(printed)
      [] OTHER -> printed
formatNoPlusZero(value, opts, loc) ==
    IF value.err /= {} THEN Result(Nil, value.err)
    ELSE IF opts.err /= {} THEN Result(Nil, opts.err)
    ELSE Result(Str(signDisplayNoPlusZero(opts.val.SignDisplay, value.val.n,
                                          formatNumber(value.val, opts.val, loc))), {})
numberFuncNoPlusZero(operand, options, loc) ==
    formatNoPlusZero(parseNumberInput(operand), parseNumberOptions(options), loc)

\* numberFunc, the switch on opts.SignDisplay: the sign put before or taken from the result
signDisplay(display, n, printed) ==
    CASE display = sAlways /\ n >= 0 -> <<"+">> \o printed
      [] display = sExceptZero /\ n > 0 -> <<"+">> \o printed
      [] display = sNever /\ n < 0 -> Tail(printed)
      [] OTHER -> printed

\* numberFunc after parseNumberInput and parseNumberOptions
formatWith(value, opts, loc) ==
    IF value.err /= {} THEN Result(Nil, value.err)
    ELSE IF opts.err /= {} THEN Result(Nil, opts.err)
    ELSE Result(Str(signDisplay(opts.val.SignDisplay, value.val.n,
                                formatNumber(value.val, opts.val, loc))), {})

\* numberFunc: the Format of the number function
numberFunc(operand, options, loc) ==
    formatWith(parseNumberInput(operand), parseNumberOptions(options), loc)

\* Options: a Go map, which is nil or refers to a map
NilOptions == [nil |-> TRUE, m |-> <<>>]
OptionsOf(map) == [nil |-> FALSE, m |-> map]

\* NewResolvedValue(0): the resolved value of the number 0
NewResolvedValue(n) == Num(n)

\* options[k] = v: the map with the key k set to v, whatever it had for k
mapAssign(map, k, v) == [x \in DOMAIN map \cup {k} |-> IF x = k THEN v ELSE map[x]]

\* fmt.Errorf("exec integer func: %w", err): an error that wraps err; val and err are what
\* integerFunc returns, options is what the caller's options are after the call
execIntegerFunc(value, after) ==
    IF value.err /= {}
    THEN [val |-> Nil, err |-> {"exec integer func"} \cup value.err, options |-> after]
    ELSE [val |-> value.val, err |-> {}, options |-> after]

\* a faulty integerFunc that keeps a maximumFractionDigits the caller has set
integerFuncKeep(operand, options, loc) ==
    IF options.nil
    THEN execIntegerFunc(numberFunc(operand, (sMaximumFractionDigits :> NewResolvedValue(0)),
                                    loc),
                         options)
    ELSE IF sMaximumFractionDigits \in DOMAIN options.m
    THEN execIntegerFunc(numberFunc(operand, options.m, loc), options)
    ELSE execIntegerFunc(
             numberFunc(operand,
                        mapAssign(options.m, sMaximumFractionDigits, NewResolvedValue(0)), loc),
             OptionsOf(mapAssign(options.m, sMaximumFractionDigits, NewResolvedValue(0))))

\* integerFunc: for nil options a new map with maximumFractionDigits 0 is made and the
\* caller's options stay nil; otherwise maximumFractionDigits = 0 is written into the
\* caller's map, over what it had; numberFunc is called with that map and the locale,
\* and its error is wrapped
integerFunc(operand, options, loc) ==
    IF options.nil
    THEN execIntegerFunc(numberFunc(operand, (sMaximumFractionDigits :> NewResolvedValue(0)),
                                    loc),
                         options)
    ELSE execIntegerFunc(
             numberFunc(operand,
                        mapAssign(options.m, sMaximumFractionDigits, NewResolvedValue(0)), loc),
             OptionsOf(mapAssign(options.m, sMaximumFractionDigits, NewResolvedValue(0))))

\* registry.New(): numberRegistryFunc has a Format and no Match, stringRegistryFunc has
\* both; integer is the builtin that stands for number, with a Format and no Match
integerRegistryFunc == [Format |-> TRUE, Match |-> FALSE]
funcRegistry ==
    (sString :> [Format |-> TRUE, Match |-> TRUE]) @@
    (sNumber :> [Format |-> TRUE, Match |-> FALSE]) @@
    (sInteger :> integerRegistryFunc)

\* value, err := f.Format(..): what the caller keeps of the call
valueAndError(r) == Result(r.val, r.err)

\* f.Format(operand, options, locale) and f.Match(input, opts, locale), with the locale
\* of the Template; the map resolveOptions has made is not nil, and is not used after
\* the call
CallFunc(funcName, operand, options) ==
    IF funcName = sString THEN stringFunc(operand, options)
    ELSE IF funcName = sInteger
    THEN valueAndError(integerFunc(operand, OptionsOf(options), locale))
    ELSE numberFunc(operand, options, locale)

Call(funcName, callable) == [func |-> funcName, callable |-> callable]

-----------------------------------------------------------------------------
(* Expression resolution *)

\* a faulty resolveValue that gives the empty string for an unbound variable
resolveValueEmpty(v, env) ==
    CASE v.k = "nil" -> Result(Nil, {})
      [] v.k \in {"quoted", "name"} -> Result(Str(v.s), {})
      [] v.k = "number" -> Result(NumOf(v.n, v.scale), {})
      [] OTHER ->
            IF v.s \in DOMAIN env THEN Result(env[v.s], {})
            ELSE Result(Str(<<>>), {"UnresolvedVariable"})

resolveValue(v, env) ==
    CASE v.k = "nil" -> Result(Nil, {})
      [] v.k \in {"quoted", "name"} -> Result(Str(v.s), {})
      [] v.k = "number" -> Result(NumOf(v.n, v.scale), {})
      [] OTHER ->
            IF v.s \in DOMAIN env THEN Result(env[v.s], {})
            ELSE Result(Str(<<"{">> \o VariableString(v.s) \o <<"}">>), {"UnresolvedVariable"})

\* a faulty resolveOptions in which a later option of the same name replaces the earlier
RECURSIVE resolveOptionsLastWins(_, _, _)
resolveOptionsLastWins(options, m, env) ==
    IF options = <<>> THEN Result(m, {})
    ELSE LET opt == Head(options)
             value == resolveValue(opt.value, env)
         IN  IF value.err /= {} THEN Result(<<>>, value.err)
             ELSE resolveOptionsLastWins(Tail(options), (opt.name :> value.val) @@ m, env)

\* resolveOptions: m is the map built so far
RECURSIVE resolveOptionsFrom(_, _, _)
resolveOptionsFrom(options, m, env) ==
    IF options = <<>> THEN Result(m, {})
    ELSE LET opt == Head(options)
             value == resolveValue(opt.value, env)
         IN  IF opt.name \in DOMAIN m THEN Result(<<>>, {"DuplicateOptionName"})
             ELSE IF value.err /= {} THEN Result(<<>>, value.err)
             ELSE resolveOptionsFrom(Tail(options), m @@ (opt.name :> value.val), env)

resolveOptions(options, env) == resolveOptionsFrom(options, <<>>, env)

Resolved(s, e, c) == [s |-> s, err |-> e, calls |-> c]

fmtOperand(operand) == IF operand.t = "nil" THEN <<>> ELSE Sprint(operand)

\* resolveAnnotation after f.Format: the formatting error, or the result as a string
formatted(funcName, result, resolutionError) ==
    IF result.err /= {}
    THEN Resolved(<<>>, resolutionError \cup {"Formatting"} \cup result.err,
                  <<Call(funcName, "Format")>>)
    ELSE Resolved(Sprint(result.val), resolutionError, <<Call(funcName, "Format")>>)

\* resolveAnnotation after the switch on the annotation: the function is looked up in the
\* registry and its Format called
formatBy(operand, funcName, declaredName, options, resolutionError) ==
    IF options.err /= {} THEN Resolved(<<>>, options.err, <<>>)
    ELSE IF declaredName = <<>> /\ operand.t \notin {"string", "float64"}
    THEN Resolved(fmtOperand(operand), resolutionError, <<>>)
    ELSE IF funcName \notin DOMAIN funcRegistry
    THEN Resolved(fmtOperand(operand), resolutionError \cup {"UnknownFunction"}, <<>>)
    ELSE IF ~funcRegistry[funcName].Format
    THEN Resolved(<<>>, {"not allowed in formatting context"}, <<>>)
    ELSE formatted(funcName, CallFunc(funcName, operand, options.val), resolutionError)

\* the name of the function: the annotation's, or the one the operand's type gives
functionName(operand, declaredName) ==
    IF declaredName /= <<>> THEN declaredName
    ELSE IF operand.t = "string" THEN sString ELSE sNumber

resolveAnnotation(operand, annotation, env) ==
    IF annotation.a = "function"
    THEN formatBy(operand, functionName(operand, annotation.name), annotation.name,
                  resolveOptions(annotation.options, env), {})
    ELSE IF annotation.a \in {"privateUse", "reserved"}
    THEN IF operand.t = "nil"
         THEN Resolved(<<"{">> \o annotation.start \o <<"}">>, {"UnsupportedExpression"}, <<>>)
         ELSE formatBy(operand, functionName(operand, <<>>), <<>>, Result(<<>>, {}),
                       {"UnsupportedExpression"})
    ELSE formatBy(operand, functionName(operand, <<>>), <<>>, Result(<<>>, {}), {})

\* a faulty resolveExpression that gives no text for a private-use or reserved annotation
annotateNoText(value, annotation, env) ==
    IF value.err /= {} THEN Resolved(Sprint(value.val), value.err, <<>>)
    ELSE IF annotation.a \in {"privateUse", "reserved"}
    THEN Resolved(<<>>, {"UnsupportedExpression"}, <<>>)
    ELSE resolveAnnotation(value.val, annotation, env)
resolveExpressionNoText(expr, env) ==
    annotateNoText(resolveValue(expr.operand, env), expr.annotation, env)

\* resolveExpression after resolveValue
annotate(value, annotation, env) ==
    IF value.err /= {} THEN Resolved(Sprint(value.val), value.err, <<>>)
    ELSE resolveAnnotation(value.val, annotation, env)

resolveExpression(expr, env) == annotate(resolveValue(expr.operand, env), expr.annotation, env)

-----------------------------------------------------------------------------
(* The matcher: selectors, preferences, filter *)

\* a faulty resolveSelector that selects by :string when a selector has no annotation
RECURSIVE resolveSelectorInferred(_, _, _, _)
resolveSelectorInferred(selectors, rs, c, env) ==
    IF selectors = <<>> THEN [res |-> rs, err |-> {}, calls |-> c]
    ELSE LET selectExpr == Head(selectors)
             annotation == selectExpr.annotation
             name == IF annotation.a = "nil" THEN sString ELSE annotation.name
             opts == resolveOptions(annotation.options, env)
             in == resolveValue(selectExpr.operand, env)
             rslt == CallFunc(name, in.val, opts.val)
             fail(e) == [res |-> <<>>, err |-> e, calls |-> c]
         IN  IF annotation.a \in {"reserved", "privateUse"} THEN fail({"UnsupportedExpression"})
             ELSE IF name \notin DOMAIN funcRegistry THEN fail({"UnknownFunction"})
             ELSE IF ~funcRegistry[name].Match THEN fail({"not allowed in selector context"})
             ELSE IF opts.err /= {} THEN fail(opts.err)
             ELSE IF in.err /= {} THEN fail(in.err)
             ELSE IF rslt.err /= {}
                  THEN [res |-> <<>>, err |-> {"Selection"}, calls |-> Append(c, Call(name, "Match"))]
             ELSE resolveSelectorInferred(Tail(selectors), Append(rs, rslt.val),
                                          Append(c, Call(name, "Match")), env)

\* resolveSelector: rs holds the results of the selectors before the first of selectors
RECURSIVE resolveSelectorFrom(_, _, _, _)
resolveSelectorFrom(selectors, rs, c, env) ==
    IF selectors = <<>> THEN [res |-> rs, err |-> {}, calls |-> c]
    ELSE LET selectExpr == Head(selectors)
             annotation == selectExpr.annotation
             name == annotation.name
             opts == resolveOptions(annotation.options, env)
             in == resolveValue(selectExpr.operand, env)
             rslt == CallFunc(name, in.val, opts.val)
             fail(e) == [res |-> <<>>, err |-> e, calls |-> c]
         IN  IF annotation.a = "nil" THEN fail({"MissingSelectorAnnotation"})
             ELSE IF annotation.a \in {"reserved", "privateUse"} THEN fail({"UnsupportedExpression"})
             ELSE IF name \notin DOMAIN funcRegistry THEN fail({"UnknownFunction"})
             ELSE IF ~funcRegistry[name].Match THEN fail({"not allowed in selector context"})
             ELSE IF opts.err /= {} THEN fail(opts.err)
             ELSE IF in.err /= {} THEN fail(in.err)
             ELSE IF rslt.err /= {}
                  THEN [res |-> <<>>, err |-> {"Selection"}, calls |-> Append(c, Call(name, "Match"))]
             ELSE resolveSelectorFrom(Tail(selectors), Append(rs, rslt.val),
                                      Append(c, Call(name, "Match")), env)

resolveSelector(matcher, env) == resolveSelectorFrom(matcher.MatchStatements, <<>>, <<>>, env)

\* the string a variant key is compared by: key.String() of a literal, fmt.Sprint of a number
KeyString(key) ==
    CASE key.k = "name" -> NameLiteralString(key.s)
      [] key.k = "quoted" -> QuotedLiteralString(key.s)
      [] OTHER -> NumberLiteralString(key.n, key.scale)

RECURSIVE LiteralKeys(_)
LiteralKeys(keys) ==
    IF keys = <<>> THEN <<>>
    ELSE (IF Head(keys).k = "*" THEN <<>> ELSE <<KeyString(Head(keys))>>) \o LiteralKeys(Tail(keys))

\* the keys resolvePreferences collects for a selector: the literal keys of every variant
RECURSIVE VariantsKeys(_)
VariantsKeys(variants) ==
    IF variants = <<>> THEN <<>>
    ELSE LiteralKeys(Head(variants).Keys) \o VariantsKeys(Tail(variants))

RECURSIVE SelectEqual(_, _)
SelectEqual(keys, value) ==
    IF keys = <<>> THEN <<>>
    ELSE (IF Head(keys) = value THEN <<Head(keys)>> ELSE <<>>) \o SelectEqual(Tail(keys), value)

matchSelectorKeys(rv, keys) == IF rv.t /= "string" THEN <<>> ELSE SelectEqual(keys, rv.s)

resolvePreferences(m, rs) ==
    [i \in 1..Len(rs) |-> matchSelectorKeys(rs[i], VariantsKeys(m.Variants))]

\* a faulty filterVariants that compares the key of the first selector only
matchesFirstSelector(variant, preferences, i) ==
    IF i > Len(preferences) \/ i > 1 THEN "keep"
    ELSE IF i > Len(variant.Keys) THEN "panic"
    ELSE IF variant.Keys[i].k = "*" THEN "keep"
    ELSE IF ~Contains(preferences[i], KeyString(variant.Keys[i])) THEN "drop"
    ELSE "keep"

\* filterVariants, the inner loop from selector i on: "keep", "drop", or "panic" when
\* variant.Keys[i] is out of range
RECURSIVE matchesAllSelectors(_, _, _)
matchesAllSelectors(variant, preferences, i) ==
    IF i > Len(preferences) THEN "keep"
    ELSE IF i > Len(variant.Keys) THEN "panic"
    ELSE IF variant.Keys[i].k = "*" THEN matchesAllSelectors(variant, preferences, i + 1)
    ELSE IF ~Contains(preferences[i], KeyString(variant.Keys[i])) THEN "drop"
    ELSE matchesAllSelectors(variant, preferences, i + 1)

RECURSIVE filterVariantsFrom(_, _)
filterVariantsFrom(variants, preferences) ==
    IF variants = <<>> THEN [variants |-> <<>>, panic |-> FALSE]
    ELSE LET verdict == matchesAllSelectors(Head(variants), preferences, 1)
             rest == filterVariantsFrom(Tail(variants), preferences)
         IN  IF verdict = "panic" THEN [variants |-> <<>>, panic |-> TRUE]
             ELSE IF rest.panic THEN rest
             ELSE IF verdict = "keep"
                  THEN [variants |-> <<Head(variants)>> \o rest.variants, panic |-> FALSE]
             ELSE rest

filterVariants(m, preferences) == filterVariantsFrom(m.Variants, preferences)

-----------------------------------------------------------------------------
(* sort.Sort(SortableVariants(sortable)), with Go's indices from 0 *)

SortableVariant(variant, score) == [Variant |-> variant, Score |-> score]

\* SortableVariants.Less and SortableVariants.Swap
Less(data, i, j) == data[i + 1].Score < data[j + 1].Score
Swap(data, i, j) == [data EXCEPT ![i + 1] = data[j + 1], ![j + 1] = data[i + 1]]

\* sort.Sort sorts a slice of at most maxInsertion elements by insertion
maxInsertion == 12

RECURSIVE insertionShift(_, _, _)
insertionShift(data, a, j) ==
    IF j > a /\ Less(data, j, j - 1) THEN insertionShift(Swap(data, j, j - 1), a, j - 1)
    ELSE data

RECURSIVE insertionFrom(_, _, _, _)
insertionFrom(data, a, b, i) ==
    IF i < b THEN insertionFrom(insertionShift(data, a, i), a, b, i + 1) ELSE data

insertionSort(data, a, b) == insertionFrom(data, a, b, a + 1)

\* order2 and median of choosePivot; swaps counts the exchanges
order2(data, a, b, swaps) ==
    IF Less(data, b, a) THEN <<b, a, swaps + 1>> ELSE <<a, b, swaps>>

median(data, a, b, c, swaps) ==
    LET s1 == order2(data, a, b, swaps)
        s2 == order2(data, s1[2], c, s1[3])
        s3 == order2(data, s1[1], s2[1], s2[3])
    IN  [pivot |-> s3[2], swaps |-> s3[3]]

\* medianAdjacent: the median of data[a-1], data[a], data[a+1]
medianAdjacent(data, a, swaps) == median(data, a - 1, a, a + 1, swaps)

\* the three candidates of choosePivot: from shortestNinther elements on each is the
\* median of its neighbourhood (Tukey's ninther)
shortestNinther == 50
maxSwaps == 12
ninther(data, a, b) ==
    LET l == b - a
        i == medianAdjacent(data, a + (l \div 4) * 1, 0)
        j == medianAdjacent(data, a + (l \div 4) * 2, i.swaps)
        k == medianAdjacent(data, a + (l \div 4) * 3, j.swaps)
    IN  median(data, i.pivot, j.pivot, k.pivot, k.swaps)

\* choosePivot: the median of three from 8 elements on; the hint is "increasing" when
\* nothing was exchanged and "decreasing" when every comparison exchanged
choosePivot(data, a, b) ==
    LET l == b - a
        m == IF l >= shortestNinther THEN ninther(data, a, b)
             ELSE IF l >= 8
             THEN median(data, a + (l \div 4) * 1, a + (l \div 4) * 2, a + (l \div 4) * 3, 0)
             ELSE [pivot |-> a + (l \div 4) * 2, swaps |-> 0]
    IN  [pivot |-> m.pivot,
         hint |-> IF m.swaps = 0 THEN "increasing"
                  ELSE IF m.swaps = maxSwaps THEN "decreasing" ELSE "unknown"]

\* reverseRange
RECURSIVE reverseRangeFrom(_, _, _)
reverseRangeFrom(data, i, j) ==
    IF i < j THEN reverseRangeFrom(Swap(data, i, j), i + 1, j - 1) ELSE data
reverseRange(data, a, b) == reverseRangeFrom(data, a, b - 1)

\* partialInsertionSort: the shift of the smaller element to the left, of the greater to
\* the right
RECURSIVE shiftLeft(_, _)
shiftLeft(data, j) ==
    IF j >= 1 /\ Less(data, j, j - 1) THEN shiftLeft(Swap(data, j, j - 1), j - 1) ELSE data
RECURSIVE shiftRight(_, _, _)
shiftRight(data, j, b) ==
    IF j < b /\ Less(data, j, j - 1) THEN shiftRight(Swap(data, j, j - 1), j + 1, b) ELSE data

\* partialInsertionSort: the first index from i on of an element below the one before it,
\* or b
RECURSIVE outOfOrder(_, _, _)
outOfOrder(data, i, b) ==
    IF i < b /\ ~Less(data, i, i - 1) THEN outOfOrder(data, i + 1, b) ELSE i

\* partialInsertionSort: at most maxSteps out-of-order pairs are shifted, and none in a
\* slice of fewer than shortestShifting elements; ok tells that data[a:b] is sorted
maxSteps == 5
shortestShifting == 50
shiftPair(data, a, b, i) ==
    IF b - i >= 2
    THEN shiftRight(IF i - a >= 2 THEN shiftLeft(Swap(data, i, i - 1), i - 1)
                    ELSE Swap(data, i, i - 1), i + 1, b)
    ELSE IF i - a >= 2 THEN shiftLeft(Swap(data, i, i - 1), i - 1)
    ELSE Swap(data, i, i - 1)
RECURSIVE partialInsertionStep(_, _, _, _, _)
partialInsertionStep(data, a, b, i, j) ==
    IF j >= maxSteps THEN [data |-> data, ok |-> FALSE]
    ELSE IF outOfOrder(data, i, b) = b THEN [data |-> data, ok |-> TRUE]
    ELSE IF b - a < shortestShifting THEN [data |-> data, ok |-> FALSE]
    ELSE partialInsertionStep(shiftPair(data, a, b, outOfOrder(data, i, b)), a, b,
                              outOfOrder(data, i, b), j + 1)
partialInsertionSort(data, a, b) == partialInsertionStep(data, a, b, a + 1, 0)

\* siftDown and heapSort
RECURSIVE siftDown(_, _, _, _)
siftDown(data, root, hi, first) ==
    LET child == 2 * root + 1
        greater == IF child + 1 < hi /\ Less(data, first + child, first + child + 1)
                   THEN child + 1 ELSE child
    IN  IF child >= hi THEN data
        ELSE IF ~Less(data, first + root, first + greater) THEN data
        ELSE siftDown(Swap(data, first + root, first + greater), greater, hi, first)
RECURSIVE buildHeap(_, _, _, _)
buildHeap(data, i, hi, first) ==
    IF i >= 0 THEN buildHeap(siftDown(data, i, hi, first), i - 1, hi, first) ELSE data
RECURSIVE popHeap(_, _, _)
popHeap(data, i, first) ==
    IF i >= 0 THEN popHeap(siftDown(Swap(data, first, first + i), 0, i, first), i - 1, first)
    ELSE data
heapSort(data, a, b) == popHeap(buildHeap(data, (b - a - 1) \div 2, b - a, a), b - a - 1, a)

\* bits.Len
RECURSIVE bitsLen(_)
bitsLen(n) == IF n = 0 THEN 0 ELSE 1 + bitsLen(n \div 2)

\* a uint64 as its 64 bits, the lowest first
RECURSIVE pow2(_)
pow2(k) == IF k = 0 THEN 1 ELSE 2 * pow2(k - 1)
uint64(n) == [i \in 1..64 |-> IF i <= 30 THEN (n \div pow2(i - 1)) % 2 ELSE 0]
shl(x, k) == [i \in 1..64 |-> IF i > k THEN x[i - k] ELSE 0]
shr(x, k) == [i \in 1..64 |-> IF i + k <= 64 THEN x[i + k] ELSE 0]
xor(x, y) == [i \in 1..64 |-> (x[i] + y[i]) % 2]
RECURSIVE lowBits(_, _)
lowBits(x, k) == IF k = 0 THEN 0 ELSE lowBits(x, k - 1) + x[k] * pow2(k - 1)

\* xorshift.Next
xorshiftLeft(x, k) == xor(x, shl(x, k))
xorshiftRight(x, k) == xor(x, shr(x, k))
xorshiftNext(x) == xorshiftLeft(xorshiftRight(xorshiftLeft(x, 13), 7), 17)

\* breakPatterns: three elements around the middle are exchanged with elements the
\* xorshift generator seeded with the length picks
breakOther(random, length) ==
    IF lowBits(random, bitsLen(length)) >= length
    THEN lowBits(random, bitsLen(length)) - length
    ELSE lowBits(random, bitsLen(length))
RECURSIVE breakFrom(_, _, _, _, _)
breakFrom(data, a, b, i, random) ==
    IF i >= 3 THEN data
    ELSE breakFrom(Swap(data, a + ((b - a) \div 4) * 2 - 1 - 1 + i,
                        a + breakOther(xorshiftNext(random), b - a)),
                   a, b, i + 1, xorshiftNext(random))
breakPatterns(data, a, b) ==
    IF b - a >= 8 THEN breakFrom(data, a, b, 0, uint64(b - a)) ELSE data

RECURSIVE partitionLoop(_, _, _, _, _)
partitionLoop(data, a, i, j, first) ==
    LET i2 == IF \E x \in i..j : ~Less(data, x, a)
              THEN CHOOSE x \in i..j : ~Less(data, x, a) /\ \A y \in i..(x - 1) : Less(data, y, a)
              ELSE j + 1
        j2 == IF \E x \in i2..j : Less(data, x, a)
              THEN CHOOSE x \in i2..j : Less(data, x, a) /\ \A y \in (x + 1)..j : ~Less(data, y, a)
              ELSE i2 - 1
    IN  IF i2 > j2 THEN [data |-> Swap(data, j2, a), mid |-> j2, alreadyPartitioned |-> first]
        ELSE partitionLoop(Swap(data, i2, j2), a, i2 + 1, j2 - 1, FALSE)

\* partition: data[pivot] goes to a, the two scans run towards each other
partition(data, a, b, pivot) == partitionLoop(Swap(data, a, pivot), a, a + 1, b - 1, TRUE)

RECURSIVE partitionEqualLoop(_, _, _, _)
partitionEqualLoop(data, a, i, j) ==
    LET i2 == IF \E x \in i..j : Less(data, a, x)
              THEN CHOOSE x \in i..j : Less(data, a, x) /\ \A y \in i..(x - 1) : ~Less(data, a, y)
              ELSE j + 1
        j2 == IF \E x \in i2..j : ~Less(data, a, x)
              THEN CHOOSE x \in i2..j : ~Less(data, a, x) /\ \A y \in (x + 1)..j : Less(data, a, y)
              ELSE i2 - 1
    IN  IF i2 > j2 THEN [data |-> data, mid |-> i2]
        ELSE partitionEqualLoop(Swap(data, i2, j2), a, i2 + 1, j2 - 1)

partitionEqual(data, a, b, pivot) == partitionEqualLoop(Swap(data, a, pivot), a, a + 1, b - 1)

\* pdqsort, after the partition: the shorter side is sorted by a call of its own, the
\* loop goes on with the longer one
RECURSIVE pdqsort(_, _, _, _, _, _)
pdqsortSides(p, a, b, limit) ==
    IF p.mid - a < b - p.mid
    THEN pdqsort(pdqsort(p.data, a, p.mid, limit, TRUE, TRUE), p.mid + 1, b, limit,
                 p.mid - a >= (b - a) \div 8, p.alreadyPartitioned)
    ELSE pdqsort(pdqsort(p.data, p.mid + 1, b, limit, TRUE, TRUE), a, p.mid, limit,
                 b - p.mid >= (b - a) \div 8, p.alreadyPartitioned)

\* pdqsort, from the check for many equal elements on
pdqsortPartition(data, a, b, limit, wasBalanced, wasPartitioned, pivot) ==
    IF a > 0 /\ ~Less(data, a - 1, pivot)
    THEN pdqsort(partitionEqual(data, a, b, pivot).data, partitionEqual(data, a, b, pivot).mid,
                 b, limit, wasBalanced, wasPartitioned)
    ELSE pdqsortSides(partition(data, a, b, pivot), a, b, limit)

\* pdqsort, from the check for a slice that is sorted already on
pdqsortSorted(data, a, b, limit, wasBalanced, wasPartitioned, pivot, hint) ==
    IF wasBalanced /\ wasPartitioned /\ hint = "increasing"
    THEN IF partialInsertionSort(data, a, b).ok THEN partialInsertionSort(data, a, b).data
         ELSE pdqsortPartition(partialInsertionSort(data, a, b).data, a, b, limit,
                               wasBalanced, wasPartitioned, pivot)
    ELSE pdqsortPartition(data, a, b, limit, wasBalanced, wasPartitioned, pivot)

\* pdqsort, from choosePivot on: a decreasing slice is reversed
pdqsortPivot(data, a, b, limit, wasBalanced, wasPartitioned) ==
    IF choosePivot(data, a, b).hint = "decreasing"
    THEN pdqsortSorted(reverseRange(data, a, b), a, b, limit, wasBalanced, wasPartitioned,
                       (b - 1) - (choosePivot(data, a, b).pivot - a), "increasing")
    ELSE pdqsortSorted(data, a, b, limit, wasBalanced, wasPartitioned,
                       choosePivot(data, a, b).pivot, choosePivot(data, a, b).hint)

\* pdqsort of data[a:b]: insertion sort for at most maxInsertion elements, heapSort when
\* the limit of unbalanced partitions is used up, breakPatterns after an unbalanced one
pdqsort(data, a, b, limit, wasBalanced, wasPartitioned) ==
    IF b - a <= maxInsertion THEN insertionSort(data, a, b)
    ELSE IF limit = 0 THEN heapSort(data, a, b)
    ELSE IF ~wasBalanced
    THEN pdqsortPivot(breakPatterns(data, a, b), a, b, limit - 1, wasBalanced, wasPartitioned)
    ELSE pdqsortPivot(data, a, b, limit, wasBalanced, wasPartitioned)

\* sort.Sort
SortSort(data) ==
    IF Len(data) <= 1 THEN data
    ELSE pdqsort(data, 0, Len(data), bitsLen(Len(data)), TRUE, TRUE)

\* one pass of sortVariants: score every tuple by selector i (1-based), then sort
scoreBy(tuple, matches, i) ==
    LET key == tuple.Variant.Keys[i]
    IN  IF key.k = "*" THEN SortableVariant(tuple.Variant, Len(matches))
        ELSE SortableVariant(tuple.Variant, Index(matches, KeyString(key)))

sortPass(data, preferences, i) ==
    SortSort([t \in 1..Len(data) |-> scoreBy(data[t], preferences[i], i)])

-----------------------------------------------------------------------------
(* Template.Execute, step by step. Writes to w always succeed, as they do for the    *)
(* strings.Builder of Sprint.                                                        *)

matcherVars == <<res, pref, filtered, sortable, pass>>
patternVars == <<pattern, partIdx, patternErr>>
declVars == <<declIdx, declared, resolutionErr, evaluated>>
callVars == <<earlier, other, text, reparsed>>

\* Execute: a Template that was never parsed (t.ast == nil) is an error and no executer
\* is made; else copy the input map, then execute() by the kind of message
Execute ==
    /\ pc = "ready"
    /\ IF ast.m = "no ast"
       THEN /\ err' = {"AST is nil"}
            /\ pc' = "done"
            /\ UNCHANGED <<variables, patternVars>>
       ELSE /\ variables' = input
            /\ err' = err
            /\ IF ast.m = "nil" THEN pc' = "done" /\ UNCHANGED patternVars
               ELSE IF ast.m = "simple"
               THEN /\ pc' = "pattern"
                    /\ pattern' = ast.QuotedPattern
                    /\ partIdx' = 1
                    /\ patternErr' = {}
               ELSE pc' = "declarations" /\ UNCHANGED patternVars
    /\ UNCHANGED <<ast, input, out, calls, declVars, matcherVars>>
    /\ rangeFirst' \in RangeFirstOf(ast)
    /\ UNCHANGED <<locale, callerOptions>>
    /\ UNCHANGED callVars

\* a faulty binding that keeps the value a name already has
setVariableOnce(env, name, resolved) ==
    [n \in DOMAIN env \cup {name} |-> IF n \in DOMAIN env THEN env[n] ELSE resolved]

\* e.variables[name] = resolved
setVariable(env, name, resolved) ==
    [n \in DOMAIN env \cup {name} |-> IF n = name THEN resolved ELSE env[n]]

\* a faulty resolveComplexMessage that takes DuplicateDeclaration for a benign error
benignOrDuplicate(e) ==
    "UnsupportedStatement" \in e \/ "UnresolvedVariable" \in e \/ "DuplicateDeclaration" \in e

\* what resolveComplexMessage does with the error of resolveDeclarations
benignDeclarationError(e) == "UnsupportedStatement" \in e \/ "UnresolvedVariable" \in e

\* a faulty resolveDeclarations that records a reserved statement and goes on to the next
\* declaration
ResolveDeclarationGoesOn ==
    /\ pc = "declarations"
    /\ declIdx <= Len(ast.Declarations)
    /\ LET decl == ast.Declarations[declIdx]
           resolved == resolveExpression(decl.expr, variables)
           failWith(e) ==
               IF benignDeclarationError(e)
               THEN resolutionErr' = e /\ pc' = "body" /\ err' = err
               ELSE resolutionErr' = resolutionErr /\ pc' = "done" /\ err' = e
       IN  IF decl.d = "reserved"
           THEN /\ resolutionErr' = {"UnsupportedStatement"}
                /\ declIdx' = declIdx + 1
                /\ UNCHANGED <<pc, err, declared, evaluated, variables, calls>>
           ELSE IF decl.variable \in declared
           THEN /\ failWith({"DuplicateDeclaration"})
                /\ UNCHANGED <<declIdx, declared, evaluated, variables, calls>>
           ELSE /\ declared' = declared \cup {decl.variable}
                /\ evaluated' = Append(evaluated, declIdx)
                /\ calls' = calls \o resolved.calls
                /\ IF resolved.err /= {}
                   THEN failWith(resolved.err) /\ UNCHANGED <<declIdx, variables>>
                   ELSE /\ variables' = setVariable(variables, decl.variable, Str(resolved.s))
                        /\ declIdx' = declIdx + 1
                        /\ UNCHANGED <<resolutionErr, pc, err>>
    /\ UNCHANGED <<ast, input, out, patternVars, matcherVars>>
    /\ rangeFirst' \in RangeFirstOf(ast)
    /\ UNCHANGED <<locale, callerOptions>>
    /\ UNCHANGED callVars

\* resolveDeclarations: one iteration of the loop over the declarations; an error
\* returns from the loop to resolveComplexMessage
ResolveDeclaration ==
    /\ pc = "declarations"
    /\ declIdx <= Len(ast.Declarations)
    /\ LET decl == ast.Declarations[declIdx]
           resolved == resolveExpression(decl.expr, variables)
           failWith(e) ==
               IF benignDeclarationError(e)
               THEN resolutionErr' = e /\ pc' = "body" /\ err' = err
               ELSE resolutionErr' = resolutionErr /\ pc' = "done" /\ err' = e
       IN  IF decl.d = "reserved"
           THEN /\ failWith({"UnsupportedStatement"})
                /\ UNCHANGED <<declIdx, declared, evaluated, variables, calls>>
           ELSE IF decl.variable \in declared
           THEN /\ failWith({"DuplicateDeclaration"})
                /\ UNCHANGED <<declIdx, declared, evaluated, variables, calls>>
           ELSE /\ declared' = declared \cup {decl.variable}
                /\ evaluated' = Append(evaluated, declIdx)
                /\ calls' = calls \o resolved.calls
                /\ IF resolved.err /= {}
                   THEN failWith(resolved.err) /\ UNCHANGED <<declIdx, variables>>
                   ELSE /\ variables' = setVariable(variables, decl.variable, Str(resolved.s))
                        /\ declIdx' = declIdx + 1
                        /\ UNCHANGED <<resolutionErr, pc, err>>
    /\ UNCHANGED <<ast, input, out, patternVars, matcherVars>>
    /\ rangeFirst' \in RangeFirstOf(ast)
    /\ UNCHANGED <<locale, callerOptions>>
    /\ UNCHANGED callVars

\* resolveComplexBody, once resolveDeclarations has returned nil or a benign error
ResolveComplexBody ==
    /\ IF pc = "declarations" THEN declIdx > Len(ast.Declarations) ELSE pc = "body"
    /\ IF ast.body = "matcher"
       THEN pc' = "selector" /\ UNCHANGED patternVars
       ELSE /\ pc' = "pattern"
            /\ pattern' = ast.QuotedPattern
            /\ partIdx' = 1
            /\ patternErr' = {}
    /\ UNCHANGED <<ast, input, variables, out, err, calls, declVars, matcherVars>>
    /\ UNCHANGED <<rangeFirst, locale, callerOptions, callVars>>

\* what resolveComplexMessage returns, given the error of resolveComplexBody
complexMessageError(recorded, bodyErr) ==
    IF "UnresolvedVariable" \in bodyErr THEN bodyErr
    ELSE IF bodyErr /= {} THEN bodyErr
    ELSE recorded

\* a faulty resolveMatcher that binds the operand of the first selector to its result
ResolveSelectorBinds ==
    /\ pc = "selector"
    /\ LET r == resolveSelector(ast, variables)
       IN  /\ calls' = calls \o r.calls
           /\ IF r.err /= {}
              THEN /\ err' = complexMessageError(resolutionErr, r.err)
                   /\ pc' = "done"
                   /\ res' = res
              ELSE /\ res' = r.res
                   /\ pc' = "preferences"
                   /\ err' = err
           /\ variables' = (IF r.err = {} /\ r.res /= <<>>
                            THEN setVariable(variables, ast.MatchStatements[1].operand.s, r.res[1])
                            ELSE variables)
    /\ UNCHANGED <<ast, input, out, declVars, patternVars, pref, filtered, sortable, pass>>
    /\ UNCHANGED <<rangeFirst, locale, callerOptions, callVars>>

\* resolveMatcher: resolveSelector; an error ends the render
ResolveSelector ==
    /\ pc = "selector"
    /\ LET r == resolveSelector(ast, variables)
       IN  /\ calls' = calls \o r.calls
           /\ IF r.err /= {}
              THEN /\ err' = complexMessageError(resolutionErr, r.err)
                   /\ pc' = "done"
                   /\ res' = res
              ELSE /\ res' = r.res
                   /\ pc' = "preferences"
                   /\ err' = err
    /\ UNCHANGED <<ast, input, variables, out, declVars, patternVars, pref, filtered,
                   sortable, pass>>
    /\ UNCHANGED <<rangeFirst, locale, callerOptions, callVars>>

ResolvePreferences ==
    /\ pc = "preferences"
    /\ pref' = resolvePreferences(ast, res)
    /\ pc' = "filter"
    /\ UNCHANGED <<ast, input, variables, out, err, calls, declVars, patternVars, res,
                   filtered, sortable, pass>>
    /\ UNCHANGED <<rangeFirst, locale, callerOptions, callVars>>

\* filterVariants; an index out of range panics
FilterVariants ==
    /\ pc = "filter"
    /\ LET f == filterVariants(ast, pref)
       IN  IF f.panic THEN pc' = "panic" /\ filtered' = filtered
           ELSE pc' = "sort" /\ filtered' = f.variants
    /\ UNCHANGED <<ast, input, variables, out, err, calls, declVars, patternVars, res, pref,
                   sortable, pass>>
    /\ UNCHANGED <<rangeFirst, locale, callerOptions, callVars>>

\* sortVariants: the sortable list, every score -1, before the first pass
SortVariants ==
    /\ pc = "sort"
    /\ sortable' = [t \in 1..Len(filtered) |-> SortableVariant(filtered[t], -1)]
    /\ pass' = Len(pref)
    /\ pc' = "sorting"
    /\ UNCHANGED <<ast, input, variables, out, err, calls, declVars, patternVars, res, pref,
                   filtered>>
    /\ UNCHANGED <<rangeFirst, locale, callerOptions, callVars>>

\* sortVariants: the pass for selector i = pass, from the last selector to the first
SortPass ==
    /\ pc = "sorting"
    /\ pass >= 1
    /\ sortable' = sortPass(sortable, pref, pass)
    /\ pass' = pass - 1
    /\ UNCHANGED <<ast, input, variables, out, pc, err, calls, declVars, patternVars, res,
                   pref, filtered>>
    /\ UNCHANGED <<rangeFirst, locale, callerOptions, callVars>>

\* selectBestVariant: resolvePattern of sortable[0]; an empty list panics
SelectBestVariant ==
    /\ pc = "sorting"
    /\ pass = 0
    /\ IF sortable = <<>> THEN pc' = "panic" /\ UNCHANGED patternVars
       ELSE /\ pc' = "pattern"
            /\ pattern' = sortable[1].Variant.QuotedPattern
            /\ partIdx' = 1
            /\ patternErr' = {}
    /\ UNCHANGED <<ast, input, variables, out, err, calls, declVars, matcherVars>>
    /\ UNCHANGED <<rangeFirst, locale, callerOptions, callVars>>

\* a faulty resolvePattern that writes an expression before what is already written
ResolvePatternPartFirst ==
    /\ pc = "pattern"
    /\ partIdx <= Len(pattern)
    /\ LET part == pattern[partIdx]
           resolved == resolveExpression(part.expr, variables)
       IN  IF part.p = "text"
           THEN out' = out \o part.text /\ UNCHANGED <<patternErr, calls>>
           ELSE IF part.p = "expression"
           THEN /\ patternErr' = patternErr \cup resolved.err
                /\ out' = resolved.s \o out
                /\ calls' = calls \o resolved.calls
           ELSE UNCHANGED <<out, patternErr, calls>>
    /\ partIdx' = partIdx + 1
    /\ UNCHANGED <<ast, input, variables, pc, err, pattern, declVars, matcherVars>>
    /\ rangeFirst' \in RangeFirstOf(ast)
    /\ UNCHANGED <<locale, callerOptions>>
    /\ UNCHANGED callVars

\* resolvePattern: one iteration of the loop over the parts
ResolvePatternPart ==
    /\ pc = "pattern"
    /\ partIdx <= Len(pattern)
    /\ LET part == pattern[partIdx]
           resolved == resolveExpression(part.expr, variables)
       IN  IF part.p = "text"
           THEN out' = out \o part.text /\ UNCHANGED <<patternErr, calls>>
           ELSE IF part.p = "expression"
           THEN /\ patternErr' = patternErr \cup resolved.err
                /\ out' = out \o resolved.s
                /\ calls' = calls \o resolved.calls
           ELSE UNCHANGED <<out, patternErr, calls>>
    /\ partIdx' = partIdx + 1
    /\ UNCHANGED <<ast, input, variables, pc, err, pattern, declVars, matcherVars>>
    /\ rangeFirst' \in RangeFirstOf(ast)
    /\ UNCHANGED <<locale, callerOptions>>
    /\ UNCHANGED callVars

\* resolvePattern returns: execute() of a simple message returns its error,
\* resolveComplexMessage decides on it
Return ==
    /\ pc = "pattern"
    /\ partIdx > Len(pattern)
    /\ err' = IF ast.m = "simple" THEN patternErr
              ELSE complexMessageError(resolutionErr, patternErr)
    /\ pc' = "done"
    /\ UNCHANGED <<ast, input, variables, out, calls, declVars, patternVars, matcherVars>>
    /\ UNCHANGED <<rangeFirst, locale, callerOptions, callVars>>

\* no earlier Execute
NoResult == [set |-> FALSE, out |-> <<>>, err |-> {}]

\* the state of an executer: the fields of executer and the locals of its functions
Executer(id, in, v, o, p, di, de, re, pa, pi, pe, rs, pr, fi, so, ps, e, c, ev) ==
    [id |-> id, input |-> in, variables |-> v, out |-> o, pc |-> p, declIdx |-> di,
     declared |-> de, resolutionErr |-> re, pattern |-> pa, partIdx |-> pi, patternErr |-> pe,
     res |-> rs, pref |-> pr, filtered |-> fi, sortable |-> so, pass |-> ps, err |-> e,
     calls |-> c, evaluated |-> ev]

\* the executer of a second call that has not run yet, or none with pc = "none"
NewExecuter(in, p) ==
    Executer(2, in, <<>>, <<>>, p, 1, {}, {}, <<>>, 1, {}, <<>>, <<>>, <<>>, <<>>, 0, {}, <<>>, <<>>)

NoExecuter == NewExecuter(<<>>, "none")

\* the executer that is running: 1 is the call the model starts with
Self == IF other.id = 1 THEN 2 ELSE 1

\* the scheduler: the running Execute call is suspended and the other one goes on; each
\* has its own executer, the Template is the same
Switch ==
    /\ earlier.set
    /\ other.pc /= "none"
    /\ other' = Executer(Self, input, variables, out, pc, declIdx, declared, resolutionErr, pattern,
                         partIdx, patternErr, res, pref, filtered, sortable, pass, err, calls,
                         evaluated)
    /\ input' = other.input
    /\ variables' = other.variables
    /\ out' = other.out
    /\ pc' = other.pc
    /\ declIdx' = other.declIdx
    /\ declared' = other.declared
    /\ resolutionErr' = other.resolutionErr
    /\ pattern' = other.pattern
    /\ partIdx' = other.partIdx
    /\ patternErr' = other.patternErr
    /\ res' = other.res
    /\ pref' = other.pref
    /\ filtered' = other.filtered
    /\ sortable' = other.sortable
    /\ pass' = other.pass
    /\ err' = other.err
    /\ calls' = other.calls
    /\ evaluated' = other.evaluated
    /\ UNCHANGED <<ast, rangeFirst, locale, callerOptions, earlier, text, reparsed>>

\* the state before the first step: at is where the program is, source the text it
\* holds, loc the locale and options the options map of the caller of a function, first
\* the key the first range over a map meets first
StartIn(message, in, second, at, source, loc, options, first) ==
    /\ ast = message
    /\ input = in
    /\ variables = <<>>
    /\ out = <<>>
    /\ pc = at
    /\ declIdx = 1
    /\ declared = {}
    /\ resolutionErr = {}
    /\ pattern = <<>>
    /\ partIdx = 1
    /\ patternErr = {}
    /\ res = <<>>
    /\ pref = <<>>
    /\ filtered = <<>>
    /\ sortable = <<>>
    /\ pass = 0
    /\ err = {}
    /\ calls = <<>>
    /\ evaluated = <<>>
    /\ rangeFirst = first
    /\ locale = loc
    /\ callerOptions = options
    /\ earlier = NoResult
    /\ other = second
    /\ text = source
    /\ reparsed = <<>>

\* New without WithLocale: the locale is language.AmericanEnglish
StartFrom(message, in, second, at, source) ==
    StartIn(message, in, second, at, source, AmericanEnglish, NilOptions, sOpt)

StartWith(message, in, second) == StartFrom(message, in, second, "ready", <<>>)

Start(message, in) == StartWith(message, in, NoExecuter)

\* a later Execute of the same Template with the same input map, after one has returned
Again ==
    /\ pc = "done"
    /\ ~earlier.set
    /\ earlier' = [set |-> TRUE, out |-> out, err |-> err]
    /\ variables' = <<>>
    /\ out' = <<>>
    /\ pc' = "ready"
    /\ declIdx' = 1
    /\ declared' = {}
    /\ resolutionErr' = {}
    /\ pattern' = <<>>
    /\ partIdx' = 1
    /\ patternErr' = {}
    /\ res' = <<>>
    /\ pref' = <<>>
    /\ filtered' = <<>>
    /\ sortable' = <<>>
    /\ pass' = 0
    /\ err' = {}
    /\ calls' = <<>>
    /\ evaluated' = <<>>
    /\ UNCHANGED <<ast, input, rangeFirst, locale, callerOptions, other, text, reparsed>>

-----------------------------------------------------------------------------
(* The messages and input maps rendered *)

MaxParts == 3
MaxDecls == 3
MaxVariants == 3

\* the sequences over S of length at most n
RECURSIVE SeqsUpTo(_, _)
SeqsUpTo(S, n) ==
    IF n = 0 THEN {<<>>}
    ELSE LET shorter == SeqsUpTo(S, n - 1)
         IN  shorter \cup {Append(q, x) : q \in {r \in shorter : Len(r) = n - 1}, x \in S}

sHello == <<"H", "e", "l", "l", "o", ",", " ">>
sWorld == <<" ", "W", "o", "r", "l", "d", "!">>
sBang == <<"!">>
sName == <<"n", "a", "m", "e">>
sMF2 == <<"M", "F", "2">>
sUnknown == <<"u", "n", "k", "n", "o", "w", "n">>
sA == <<"a">>
sB == <<"b">>
sN == <<"n">>
sX == <<"x">>
sY == <<"y">>
sYes == <<"y", "e", "s">>
sNo == <<"n", "o">>
sValue == <<"v", "a", "l", "u", "e", " ", "=", " ">>
sOneApple == <<"o", "n", "e", " ", "a", "p", "p", "l", "e">>
sApples == <<" ", "a", "p", "p", "l", "e", "s">>

NilMessage ==
    [m |-> "nil", Declarations |-> <<>>, body |-> "pattern", QuotedPattern |-> <<>>,
     MatchStatements |-> <<>>, Variants |-> <<>>]

\* the ast of the Template that New returns, before Parse: nil
NoAST ==
    [m |-> "no ast", Declarations |-> <<>>, body |-> "pattern", QuotedPattern |-> <<>>,
     MatchStatements |-> <<>>, Variants |-> <<>>]

\* an expression with a variable operand and a function without options
VarFunc(name, func) == Expression(Variable(name), Function(func, <<>>))

\* pattern parts: text, markup, and expressions that resolve, fail or are unsupported
Parts ==
    { Text(sHello), Text(sBang), Markup,
      ExpressionPart(Expression(Variable(sName), NoAnnotation)),
      ExpressionPart(VarFunc(sName, sUnknown)),
      ExpressionPart(VarFunc(sN, sNumber)),
      ExpressionPart(Expression(NoValue, PrivateUseAnnotation(<<"^">>))),
      ExpressionPart(Expression(NoValue, Function(sString, <<>>))) }

PatternInputs ==
    { <<>>, (sName :> Str(sMF2)), (sName :> Str(sMF2)) @@ (sN :> Num(3)) }

\* the end-to-end scenarios 1 and 2
HelloWorld ==
    SimpleMessage(<<Text(sHello), ExpressionPart(Expression(Variable(sName), NoAnnotation)),
                    Text(sWorld)>>)

SimpleMessages == {SimpleMessage(parts) : parts \in SeqsUpTo(Parts, MaxParts)} \cup {HelloWorld}

\* declarations of $x and $y, by literals, by each other and by the input map
Decls ==
    { LocalDeclaration(sX, Expression(NumberLiteral(1), NoAnnotation)),
      LocalDeclaration(sX, Expression(Variable(sY), NoAnnotation)),
      LocalDeclaration(sY, Expression(Variable(sX), NoAnnotation)),
      LocalDeclaration(sY, Expression(QuotedLiteral(sYes), NoAnnotation)),
      InputDeclaration(Expression(Variable(sX), NoAnnotation)),
      InputDeclaration(VarFunc(sY, sUnknown)),
      ReservedStatement }

\* the body {{value = { $x }{ $y }}}, and scenario 5 with { $x } alone
ValueOfX == <<Text(sValue), ExpressionPart(Expression(Variable(sX), NoAnnotation))>>
ValueOfXY == Append(ValueOfX, ExpressionPart(Expression(Variable(sY), NoAnnotation)))

DeclInputs == { <<>>, (sX :> Str(sNo)), (sX :> Num(3)) @@ (sY :> Str(sNo)) }

ComplexPatterns ==
    {ComplexPattern(decls, body) : decls \in SeqsUpTo(Decls, MaxDecls), body \in {ValueOfX, ValueOfXY}}

InitMessage ==
    \/ \E message \in SimpleMessages \cup {NilMessage, NoAST}, in \in PatternInputs :
          Start(message, in)
    \/ \E message \in ComplexPatterns, in \in DeclInputs : Start(message, in)

NextMessage ==
    \/ Execute
    \/ ResolveDeclaration
    \/ ResolveComplexBody
    \/ ResolvePatternPart
    \/ Return

SpecMessage == InitMessage /\ [][NextMessage]_vars

-----------------------------------------------------------------------------
(* Matchers *)

\* the pattern {{Vi}} of the i-th variant, which tells the variants apart in the output
VariantText(i) == <<"V">> \o FormatNat(i)
VariantPattern(i) == <<Text(VariantText(i))>>

\* the variants with the given key tuples, in order
Variants(keyTuples) == [i \in 1..Len(keyTuples) |-> Variant(keyTuples[i], VariantPattern(i))]

StringSelector(name) == VarFunc(name, sString)

Keys == {CatchAllKey, NameLiteral(sYes), NameLiteral(sNo)}

\* matchers over {$a :string} and {$a :string} {$b :string}, every variant with a key
\* for each selector
StringMatchers ==
    UNION { {ComplexMatcher(<<>>, selectors, Variants(keyTuples)) :
                keyTuples \in SeqsUpTo({t \in SeqsUpTo(Keys, Len(selectors)) :
                                            Len(t) = Len(selectors)}, MaxVariants) \ {<<>>}} :
            selectors \in {<<StringSelector(sA)>>, <<StringSelector(sA), StringSelector(sB)>>} }

StringInputs == {(sA :> Str(a)) @@ (sB :> Str(b)) : a \in {sYes, sNo}, b \in {sYes, sNo}}

\* selectors that resolve and selectors that fail, each in its own way
Selectors ==
    { StringSelector(sA),
      Expression(Variable(sA), NoAnnotation),
      VarFunc(sA, sNumber),
      VarFunc(sA, sUnknown),
      VarFunc(sX, sString),
      Expression(Variable(sA), PrivateUseAnnotation(<<"^">>)),
      Expression(Variable(sA), ReservedAnnotation(<<"!">>)),
      Expression(NoValue, Function(sString, <<>>)),
      Expression(Variable(sA), Function(sString, <<Option(sOpt, Variable(sX))>>)),
      Expression(Variable(sA), Function(sString, <<Option(sOpt, NameLiteral(sYes))>>)) }

\* one or two of these selectors before the variants `yes .. {{V1}}` and `* .. {{V2}}`,
\* after no declaration or after a reserved statement
SelectorMatchers ==
    { ComplexMatcher(decls, selectors,
                     Variants(<<[i \in 1..Len(selectors) |-> NameLiteral(sYes)],
                                [i \in 1..Len(selectors) |-> CatchAllKey]>>)) :
        decls \in {<<>>, <<ReservedStatement>>},
        selectors \in SeqsUpTo(Selectors, 2) \ {<<>>} }

\* scenarios 3 and 4: .match {$n :number} 1 {{one apple}} * {{{$n} apples}}
Apples ==
    ComplexMatcher(<<>>, <<VarFunc(sN, sNumber)>>,
        << Variant(<<NumberLiteral(1)>>, <<Text(sOneApple)>>),
           Variant(<<CatchAllKey>>,
                   <<ExpressionPart(Expression(Variable(sN), NoAnnotation)), Text(sApples)>>) >>)

\* scenario 6: .match s1 s2 yes yes {{A}} yes no {{B}} * no {{C}} * * {{D}}
YesNo(s1, s2) ==
    ComplexMatcher(<<>>, <<s1, s2>>,
        << Variant(<<NameLiteral(sYes), NameLiteral(sYes)>>, <<Text(<<"A">>)>>),
           Variant(<<NameLiteral(sYes), NameLiteral(sNo)>>, <<Text(<<"B">>)>>),
           Variant(<<CatchAllKey, NameLiteral(sNo)>>, <<Text(<<"C">>)>>),
           Variant(<<CatchAllKey, CatchAllKey>>, <<Text(<<"D">>)>>) >>)

YesNoBare == YesNo(Expression(Variable(sA), NoAnnotation), Expression(Variable(sB), NoAnnotation))
YesNoString == YesNo(StringSelector(sA), StringSelector(sB))

Init ==
    \/ \E message \in StringMatchers \cup SelectorMatchers \cup {YesNoBare, YesNoString},
          in \in StringInputs : Start(message, in)
    \/ \E n \in {1, 3} : Start(Apples, (sN :> Num(n)))

Next ==
    \/ Execute
    \/ ResolveDeclaration
    \/ ResolveComplexBody
    \/ ResolveSelector
    \/ ResolvePreferences
    \/ FilterVariants
    \/ SortVariants
    \/ SortPass
    \/ SelectBestVariant
    \/ ResolvePatternPart
    \/ Return

Spec == Init /\ [][Next]_vars

-----------------------------------------------------------------------------
(* Matchers with more variants than sort.Sort sorts by insertion *)

LongLen == maxInsertion + 1

YesKeys == {CatchAllKey, NameLiteral(sYes)}

\* LongLen key tuples: base everywhere but at p and q
KeyTuples(base, p, atP, q, atQ) ==
    [i \in 1..LongLen |-> IF i = p THEN atP ELSE IF i = q THEN atQ ELSE base]

LongMatchersOver(decls, selectors) ==
    LET tuples == {t \in SeqsUpTo(YesKeys, Len(selectors)) : Len(t) = Len(selectors)}
    IN  {ComplexMatcher(decls, selectors, Variants(KeyTuples(base, p, atP, q, atQ))) :
            base \in tuples, atP \in tuples, atQ \in tuples,
            p \in 1..LongLen, q \in 2..LongLen}

LongMatchers ==
    LongMatchersOver(<<>>, <<StringSelector(sA), StringSelector(sB)>>)
    \cup LongMatchersOver(<<InputDeclaration(StringSelector(sA))>>, <<StringSelector(sA)>>)

InitSort == \E message \in LongMatchers : Start(message, (sA :> Str(sYes)) @@ (sB :> Str(sYes)))

SpecSort == InitSort /\ [][Next]_vars

-----------------------------------------------------------------------------
(* Properties of the matcher *)

\* the place of a variant in the matcher's text (the patterns tell the variants apart)
Position(variant) == CHOOSE i \in 1..Len(ast.Variants) : ast.Variants[i] = variant

\* the score sortVariants gives a variant for selector i
ScoreAt(variant, i) ==
    IF variant.Keys[i].k = "*" THEN Len(pref[i]) ELSE Index(pref[i], KeyString(variant.Keys[i]))

ScoreTuple(variant) == [i \in 1..Len(pref) |-> ScoreAt(variant, i)]

RECURSIVE LexLess(_, _)
LexLess(s, t) ==
    IF s = <<>> \/ t = <<>> THEN FALSE
    ELSE Head(s) < Head(t) \/ (Head(s) = Head(t) /\ LexLess(Tail(s), Tail(t)))

\* a variant has been picked: selectBestVariant has taken sortable[0]
Picked == ast.body = "matcher" /\ pc \in {"pattern", "done"} /\ sortable /= <<>>
Best == sortable[1].Variant

\* C1: among the surviving variants with equal scores at every selector, the one
\* rendered is the earliest in the message text, for any number of variants.
C1_EarliestOfTies ==
    Picked => \A v \in 1..Len(filtered) :
                  ScoreTuple(filtered[v]) = ScoreTuple(Best) => Position(Best) <= Position(filtered[v])


\* filterVariants has run
Filtered == pc \in {"sort", "sorting"}

Survives(variant) ==
    \A i \in 1..Len(pref) : variant.Keys[i].k = "*" \/ Contains(pref[i], KeyString(variant.Keys[i]))

\* C2: filterVariants keeps a variant if and only if every key is `*` or a member of its
\* selector's preference list, and keeps the variants in their textual order.
C2_FilterKeepsMatching == Filtered => filtered = SelectSeq(ast.Variants, Survives)

\* filterVariants has dropped a variant and kept two, for two selectors
C2_Witness ==
    /\ Filtered
    /\ Len(pref) = 2
    /\ Len(filtered) = 2
    /\ Len(ast.Variants) = 3
    /\ \E v \in 1..2 : filtered[v].Keys[1].k = "*" /\ filtered[v].Keys[2].k = "name"

\* C3: the variant rendered is the surviving variant with the lexicographically smallest
\* tuple of scores, the first selector most significant; so a variant with a matching
\* literal key is preferred over one with `*` there when they agree on the earlier keys.
C3_SmallestScoreTuple ==
    Picked =>
        /\ \A v \in 1..Len(filtered) : ~LexLess(ScoreTuple(filtered[v]), ScoreTuple(Best))
        /\ \A v \in 1..Len(filtered), i \in 1..Len(pref) :
               ~ /\ Best.Keys[i].k = "*"
                 /\ filtered[v].Keys[i].k /= "*"
                 /\ \A j \in 1..(i - 1) : ScoreAt(filtered[v], j) = ScoreAt(Best, j)

NoYes == (sA :> Str(sNo)) @@ (sB :> Str(sYes))

\* C4 as stated: scenario 6, with bare variables as selectors, renders D.
C4_BareSelectorsRenderD == (pc = "done" /\ ast = YesNoBare /\ input = NoYes) => out = <<"D">>

\* C4, amended: scenario 6 with bare variables as selectors writes nothing and fails with
\* MissingSelectorAnnotation; with both selectors annotated :string it renders D.
C4_BareSelectorsFail ==
    /\ (pc = "done" /\ ast = YesNoBare) => (out = <<>> /\ err = {"MissingSelectorAnnotation"})
    /\ (pc = "done" /\ ast = YesNoString /\ input = NoYes) => (out = <<"D">> /\ err = {})

C4_Witness == pc = "done" /\ ast = YesNoBare /\ input = NoYes /\ err /= {}

\* resolveDeclarations has returned a fatal error, so the body was never resolved
DeclarationsAborted == pc = "done" /\ declIdx <= Len(ast.Declarations) /\ resolutionErr = {}

Unbound(value) == value.k = "variable" /\ value.s \notin DOMAIN variables

\* a selector that cannot be resolved: no function annotation, an unknown function or one
\* without a match callable, an option or operand that does not resolve, or a failing match
SelectorFails(selectExpr) ==
    LET annotation == selectExpr.annotation
        options == annotation.options
    IN  \/ annotation.a /= "function"
        \/ annotation.name \notin DOMAIN funcRegistry
        \/ ~funcRegistry[annotation.name].Match
        \/ \E o \in 1..Len(options) : Unbound(options[o].value)
        \/ \E o1, o2 \in 1..Len(options) : o1 /= o2 /\ options[o1].name = options[o2].name
        \/ Unbound(selectExpr.operand)
        \/ annotation.name = sString /\ (selectExpr.operand.k = "nil" \/ options /= <<>>)

MatcherDone == pc = "done" /\ ast.body = "matcher" /\ ~DeclarationsAborted

\* C5 as stated: a matcher with a selector without annotation fails with
\* MissingSelectorAnnotation, and when any selector fails to resolve no variant's pattern
\* is written.
C5_MissingAnnotationReported ==
    (pc = "done" /\ ast.body = "matcher") =>
        /\ (\E i \in 1..Len(ast.MatchStatements) : ast.MatchStatements[i].annotation.a = "nil")
               => "MissingSelectorAnnotation" \in err
        /\ (\E i \in 1..Len(ast.MatchStatements) : SelectorFails(ast.MatchStatements[i]))
               => (out = <<>> /\ pattern = <<>>)

\* C5, amended: a selector without annotation makes the render fail with
\* MissingSelectorAnnotation when every selector before it resolves (the first selector
\* that fails decides the error), and when any selector fails to resolve, the render
\* fails and no variant's pattern is written.
C5_FirstFailingSelectorReported ==
    MatcherDone =>
        /\ \A i \in 1..Len(ast.MatchStatements) :
               (/\ ast.MatchStatements[i].annotation.a = "nil"
                /\ \A j \in 1..(i - 1) : ~SelectorFails(ast.MatchStatements[j]))
               => err = {"MissingSelectorAnnotation"}
        /\ (\E i \in 1..Len(ast.MatchStatements) : SelectorFails(ast.MatchStatements[i]))
               => (out = <<>> /\ err /= {} /\ pattern = <<>>)

\* the second selector has no annotation, the first resolves
C5_Witness ==
    /\ MatcherDone
    /\ Len(ast.MatchStatements) = 2
    /\ ast.MatchStatements[1] = StringSelector(sA)
    /\ ast.MatchStatements[2].annotation.a = "nil"
    /\ err = {"MissingSelectorAnnotation"}

\* C6: scenarios 3 and 4: with :number as the selector, n = 1 renders `one apple` and
\* n = 3 renders `3 apples`.
C6_NumberSelects ==
    (pc = "done" /\ ast = Apples) =>
        /\ input[sN] = Num(1) => out = sOneApple
        /\ input[sN] = Num(3) => out = <<"3">> \o sApples


-----------------------------------------------------------------------------
(* Properties of patterns and declarations *)

Placeholder(name) == <<"{", "$">> \o name \o <<"}">>

UnboundOperand(part) == part.p = "expression" /\ Unbound(part.expr.operand)

\* what a part adds to the output
Contribution(part) ==
    IF part.p = "text" THEN part.text
    ELSE IF part.p = "markup" THEN <<>>
    ELSE IF UnboundOperand(part) THEN Placeholder(part.expr.operand.s)
    ELSE resolveExpression(part.expr, variables).s

\* C7: an expression whose variable operand is not bound adds the placeholder {$name} to
\* the output, the render reports UnresolvedVariable, and the later parts of the pattern
\* are still written.
C7_PlaceholderAndContinue ==
    /\ (pc = "pattern" /\ \E i \in 1..(partIdx - 1) : UnboundOperand(pattern[i]))
           => "UnresolvedVariable" \in patternErr
    /\ pc = "done" =>
           /\ out = Flatten([i \in 1..Len(pattern) |-> Contribution(pattern[i])])
           /\ (\E i \in 1..Len(pattern) : UnboundOperand(pattern[i]))
                  => "UnresolvedVariable" \in err

\* scenario 2: `Hello, { $name }!` with an empty input map
C7_Witness ==
    /\ pc = "done"
    /\ ast = SimpleMessage(<<Text(sHello), ExpressionPart(Expression(Variable(sName), NoAnnotation)),
                             Text(sBang)>>)
    /\ input = <<>>
    /\ out = sHello \o Placeholder(sName) \o sBang
    /\ err = {"UnresolvedVariable"}

\* the environment once the first k declarations are resolved, each against the
\* environment the declarations before it have made
RECURSIVE BindingsAfter(_, _, _)
BindingsAfter(decls, k, env) ==
    IF k = 0 THEN env
    ELSE LET before == BindingsAfter(decls, k - 1, env)
         IN  (decls[k].variable :> Str(resolveExpression(decls[k].expr, before).s)) @@ before

DeclaredBefore(i) == {ast.Declarations[j].variable : j \in 1..(i - 1)}

\* declaration i reads a variable that neither the input map nor an earlier declaration binds
ReadsUndeclared(i) ==
    /\ ast.Declarations[i].d /= "reserved"
    /\ ast.Declarations[i].expr.operand.k = "variable"
    /\ ast.Declarations[i].expr.operand.s \notin DOMAIN input \cup DeclaredBefore(i)

\* resolveDeclarations has returned at declaration declIdx
StoppedAtDeclaration == pc \notin {"ready", "declarations"} /\ declIdx <= Len(ast.Declarations)

Local1 == LocalDeclaration(sX, Expression(NumberLiteral(1), NoAnnotation))

\* C8: declarations are resolved one at a time in textual order, each bound before the
\* next is resolved: the environment is the input map overridden by the results of the
\* declarations resolved so far, each resolved against the bindings before it; a
\* declaration reading a name declared only later is not resolved and records
\* UnresolvedVariable; `.local $x = {1} {{value = { $x }}}` renders `value = 1`. (A
\* template that was never parsed has no executer, and so no environment.)
C8_DeclarationsInOrder ==
    /\ (pc /= "ready" /\ ast /= NoAST)
           => variables = BindingsAfter(ast.Declarations, declIdx - 1, input)
    /\ evaluated = [i \in 1..Len(evaluated) |-> i]
    /\ Len(evaluated) \in {declIdx - 1, declIdx}
    /\ \A i \in 1..Len(ast.Declarations) :
           ReadsUndeclared(i) =>
               /\ declIdx <= i
               /\ (StoppedAtDeclaration /\ declIdx = i /\ Contains(evaluated, i))
                      => "UnresolvedVariable" \in resolutionErr
    /\ (pc = "done" /\ ast.Declarations = <<Local1>> /\ ast.QuotedPattern = ValueOfX)
           => (out = sValue \o <<"1">> /\ err = {})

\* .local $x = {1} .local $y = {$x} {{value = { $x }{ $y }}} over an input map that
\* binds x and y to other values
C8_Witness ==
    /\ pc = "done"
    /\ ast.Declarations = <<Local1, LocalDeclaration(sY, Expression(Variable(sX), NoAnnotation))>>
    /\ sY \in DOMAIN input
    /\ out = sValue \o <<"1", "1">>

\* declaration i declares the name of an earlier declaration
Redeclares(i) ==
    /\ ast.Declarations[i].d /= "reserved"
    /\ \E j \in 1..(i - 1) :
           ast.Declarations[j].d /= "reserved"
           /\ ast.Declarations[j].variable = ast.Declarations[i].variable

\* C9 as stated: a message with two declarations of one name fails with
\* DuplicateDeclaration, without rendering the body or writing output.
C9_DuplicateAlwaysFails ==
    (pc = "done" /\ \E i \in 1..Len(ast.Declarations) : Redeclares(i))
        => (err = {"DuplicateDeclaration"} /\ out = <<>> /\ pattern = <<>>)

\* C9, amended: when resolveDeclarations comes to a declaration of a name an earlier
\* declaration has declared (every declaration before it resolved), the render fails with
\* DuplicateDeclaration: the second expression is not evaluated, the binding made by the
\* first stays, the body is not rendered and nothing is written.
C9_DuplicateReachedFails ==
    (StoppedAtDeclaration /\ Redeclares(declIdx)) =>
        /\ pc = "done"
        /\ err = {"DuplicateDeclaration"}
        /\ ~Contains(evaluated, declIdx)
        /\ \A j \in 1..(declIdx - 1) :
               ast.Declarations[j].variable = ast.Declarations[declIdx].variable
               => variables[ast.Declarations[j].variable]
                      = BindingsAfter(ast.Declarations, j, input)[ast.Declarations[j].variable]
        /\ out = <<>>
        /\ pattern = <<>>

\* .local $x = {1} then .input {$x}
C9_Witness ==
    /\ StoppedAtDeclaration
    /\ declIdx = 2
    /\ ast.Declarations[1] = Local1
    /\ ast.Declarations[2].d = "input"
    /\ ast.Declarations[2].variable = sX
    /\ sX \in DOMAIN input
    /\ variables[sX] = Str(<<"1">>)
    /\ err = {"DuplicateDeclaration"}

\* C10: a reserved statement that resolveDeclarations comes to is recorded without
\* aborting the render: the body is rendered and the error returned reports
\* UnsupportedStatement.
C10_ReservedStatementReported ==
    (StoppedAtDeclaration /\ ast.Declarations[declIdx].d = "reserved") =>
        /\ pc \in {"body", "pattern", "done"}
        /\ pc = "done" =>
               /\ pattern = ast.QuotedPattern
               /\ out = Flatten([i \in 1..Len(pattern) |-> Contribution(pattern[i])])
               /\ "UnsupportedStatement" \in err


\* C11: the error returned by the render of a complex message holds every error recorded
\* during the render: the benign error of the declarations and the error of the body.
C11_AllErrorsReported ==
    (pc = "done" /\ ast.m = "complex") => (resolutionErr \subseteq err /\ patternErr \subseteq err)


-----------------------------------------------------------------------------
(* Expressions with options *)

MaxOptions == 3

sS == <<"s">>
sNIs == <<"n", " ", "=", " ">>

\* signDisplay=always, signDisplay=never, signDisplay=$s, style=percent
Options ==
    { Option(sSignDisplay, NameLiteral(sAlways)), Option(sSignDisplay, NameLiteral(sNever)),
      Option(sSignDisplay, Variable(sS)), Option(sStyle, NameLiteral(sPercent)) }

OptionExpressions ==
    { Expression(operand, Function(name, options)) :
        operand \in {Variable(sN), NumberLiteral(1)},
        name \in {sNumber, sUnknown},
        options \in SeqsUpTo(Options, MaxOptions) }

\* `n = {expr}!`, and `.local $x = {expr} {{value = { $x }}}`
OptionMessages ==
    {SimpleMessage(<<Text(sNIs), ExpressionPart(e), Text(sBang)>>) : e \in OptionExpressions}
    \cup {ComplexPattern(<<LocalDeclaration(sX, e)>>, ValueOfX) : e \in OptionExpressions}

OptionInputs == { <<>>, (sN :> Num(3)), (sN :> Num(3)) @@ (sS :> Str(sAlways)) }

InitOptions == \E message \in OptionMessages, in \in OptionInputs : Start(message, in)

SpecOptions == InitOptions /\ [][NextMessage]_vars

\* the expression of the message: of its pattern, or of its declaration
OptionExpression ==
    IF ast.m = "simple" THEN ast.QuotedPattern[2].expr ELSE ast.Declarations[1].expr

\* option i has the name of an option before it
SecondOccurrence(options, i) == \E j \in 1..(i - 1) : options[j].name = options[i].name

\* option i stops resolveOptions: a second occurrence, or a value that is not bound
StopsAt(options, i) == SecondOccurrence(options, i) \/ Unbound(options[i].value)

\* resolveOptions comes to option i: the operand and every option before i resolve
ComesTo(expr, i) ==
    /\ ~Unbound(expr.operand)
    /\ \A j \in 1..(i - 1) : ~StopsAt(expr.annotation.options, j)

\* C12 as stated: an annotation with an option name that occurs twice fails with
\* DuplicateOptionName, without a call of the function or text for the expression.
C12_DuplicateOptionAlwaysFails ==
    (pc = "done" /\ ast.m = "simple") =>
        LET options == OptionExpression.annotation.options
        IN  (\E i \in 1..Len(options) : SecondOccurrence(options, i))
                => (err = {"DuplicateOptionName"} /\ calls = <<>> /\ out = sNIs \o sBang)

\* C12, amended: options are resolved left to right, after the operand; the first option
\* that is a second occurrence of a name or has an unbound value stops the expression,
\* with DuplicateOptionName for a second occurrence (its value is not looked at) and
\* UnresolvedVariable otherwise: the function is not called and the expression adds no
\* text; in a declaration DuplicateOptionName ends the render.
C12_DuplicateOptionReachedFails ==
    pc = "done" =>
        LET options == OptionExpression.annotation.options
        IN  \A i \in 1..Len(options) :
                (ComesTo(OptionExpression, i) /\ StopsAt(options, i)) =>
                    /\ calls = <<>>
                    /\ out = IF ast.m = "simple" THEN sNIs \o sBang
                             ELSE IF SecondOccurrence(options, i) THEN <<>>
                             ELSE sValue \o Placeholder(sX)
                    /\ IF SecondOccurrence(options, i) THEN err = {"DuplicateOptionName"}
                       ELSE err = {"UnresolvedVariable"}

\* {$n :number signDisplay=always style=percent signDisplay=$s} with n bound and s not
C12_Witness ==
    /\ pc = "done"
    /\ ast.m = "simple"
    /\ OptionExpression.operand = Variable(sN)
    /\ OptionExpression.annotation.name = sNumber
    /\ OptionExpression.annotation.options
           = <<Option(sSignDisplay, NameLiteral(sAlways)), Option(sStyle, NameLiteral(sPercent)),
               Option(sSignDisplay, Variable(sS))>>
    /\ input = (sN :> Num(3))
    /\ err = {"DuplicateOptionName"}
    /\ out = sNIs \o sBang


-----------------------------------------------------------------------------
(* Functions, callables and names *)

\* the function a selector names is registered and has no match callable
NoMatchCallable(selectExpr) ==
    /\ selectExpr.annotation.a = "function"
    /\ selectExpr.annotation.name \in DOMAIN funcRegistry
    /\ ~funcRegistry[selectExpr.annotation.name].Match

\* C13: a function without the callable its position needs (here: no match callable, as
\* the first selector of a matcher) gives an error of kind UnsupportedExpression, and the
\* function is not invoked.
C13_MissingCallableUnsupported ==
    (MatcherDone /\ NoMatchCallable(ast.MatchStatements[1])) =>
        /\ "UnsupportedExpression" \in err
        /\ \A c \in 1..Len(calls) : calls[c].func /= ast.MatchStatements[1].annotation.name


sNs == <<"n", "s">>

\* :string, :number, :unknown and :ns:string, :ns:number, :ns:unknown
NamedFunctions ==
    {FunctionNS(namespace, name, <<>>) : namespace \in {<<>>, sNs}, name \in {sString, sNumber, sUnknown}}

\* `Hello, {operand :f}`, `.input {$x :f} {{value = { $x }}}` and
\* `.match {$a :f} yes {{V1}} * {{V2}}`, the latter also after `.input {$a :f}`
NamedMessages ==
    {SimpleMessage(<<Text(sHello), ExpressionPart(Expression(operand, f))>>) :
        operand \in {Variable(sName), QuotedLiteral(sYes), NumberLiteral(1)}, f \in NamedFunctions}
    \cup {ComplexPattern(<<InputDeclaration(Expression(Variable(sX), f))>>, ValueOfX) :
            f \in NamedFunctions}
    \cup {ComplexMatcher(decls, <<Expression(Variable(sA), f)>>,
                         Variants(<<<<NameLiteral(sYes)>>, <<CatchAllKey>>>>)) :
            f \in NamedFunctions,
            decls \in {<<>>, <<InputDeclaration(Expression(Variable(sA), FunctionNS(sNs, sString, <<>>)))>>}}

NamedInputs ==
    { <<>>,
      (sName :> Str(sMF2)) @@ (sX :> Str(sNo)) @@ (sA :> Str(sYes)),
      (sName :> Num(3)) @@ (sX :> Num(3)) @@ (sA :> Str(sNo)) }

InitNames == \E message \in NamedMessages, in \in NamedInputs : Start(message, in)

SpecNames == InitNames /\ [][Next]_vars

\* C14: a function is looked up by namespace and name together: an annotation whose
\* namespace:name is not a key of the registry gives UnknownFunction and calls nothing,
\* in a pattern as in a selector.
C14_ExactKeyLookup ==
    /\ (pc = "done" /\ ast.m = "simple") =>
           LET e == ast.QuotedPattern[2].expr
           IN  (~Unbound(e.operand) /\ IdentifierString(e.annotation) \notin DOMAIN funcRegistry)
                   => ("UnknownFunction" \in err /\ calls = <<>>)
    /\ (MatcherDone /\ IdentifierString(ast.MatchStatements[1].annotation) \notin DOMAIN funcRegistry)
           => ("UnknownFunction" \in err /\ out = <<>>)


-----------------------------------------------------------------------------
(* The order of the output *)

\* what a part is to add: its text, its resolved string, nothing for markup
PartString(part) ==
    IF part.p = "text" THEN part.text
    ELSE IF part.p = "expression" THEN resolveExpression(part.expr, variables).s
    ELSE <<>>

\* C15: the output of a pattern is the concatenation, in the order of the parts, of the
\* text of a Text, the resolved string of an Expression and nothing for a Markup: after
\* k parts the output holds exactly the first k contributions, each once.
C15_OutputInSourceOrder ==
    /\ pc \in {"pattern", "done"} => out = Flatten([i \in 1..(partIdx - 1) |-> PartString(pattern[i])])
    /\ pc = "done" => partIdx \in {1, Len(pattern) + 1}
    /\ pc \notin {"pattern", "done"} => out = <<>>

\* {$name}, markup, `!` with name bound to MF2
C15_Witness ==
    /\ pc = "done"
    /\ Len(pattern) = 3
    /\ pattern[1] = ExpressionPart(Expression(Variable(sName), NoAnnotation))
    /\ pattern[2] = Markup
    /\ pattern[3] = Text(sBang)
    /\ out = sMF2 \o sBang
    /\ err = {}


-----------------------------------------------------------------------------
(* Two renders of one message *)

\* opt=yes, foo=yes, zzzz=yes, signDisplay=always: `number` knows the last only
sZzzz == <<"z", "z", "z", "z">>
RunOptions ==
    { Option(sOpt, NameLiteral(sYes)), Option(sFoo, NameLiteral(sYes)),
      Option(sZzzz, NameLiteral(sYes)), Option(sSignDisplay, NameLiteral(sAlways)) }

RunExpressions ==
    {Expression(Variable(sN), Function(sNumber, options)) : options \in SeqsUpTo(RunOptions, 2)}

\* `n = {expr}!`, `.local $x = {expr} {{value = { $x }}}`, and matchers
RunMessages ==
    {SimpleMessage(<<Text(sNIs), ExpressionPart(e), Text(sBang)>>) : e \in RunExpressions}
    \cup {ComplexPattern(<<LocalDeclaration(sX, e)>>, ValueOfX) : e \in RunExpressions}
    \cup {YesNoString,
          ComplexMatcher(<<InputDeclaration(StringSelector(sA))>>, <<StringSelector(sA)>>,
                         Variants(<<<<NameLiteral(sYes)>>, <<CatchAllKey>>>>))}

RunInputs ==
    {(sN :> Num(n)) @@ (sA :> Str(a)) @@ (sB :> Str(sYes)) : n \in {1, 3}, a \in {sYes, sNo}}

InitRuns == \E message \in RunMessages, in \in RunInputs : Start(message, in)

NextRuns ==
    \/ Next
    \/ Again

SpecRuns == InitRuns /\ [][NextRuns]_vars

\* C16: a second render of the same message with the same input map gives the same
\* output and the same error as the first.
C16_SameResultAgain == (earlier.set /\ pc = "done") => (out = earlier.out /\ err = earlier.err)


-----------------------------------------------------------------------------
(* Two concurrent renders of one Template *)

sApple == <<"a", "p", "p", "l", "e">>

\* messages with expressions, declarations and matchers; calls of number with one and
\* with two options it does not know, and a call of integer, which writes into the map
\* of its options
ConcurrentMessages ==
    { HelloWorld,
      SimpleMessage(<<Text(sNIs), ExpressionPart(Expression(Variable(sN),
                        Function(sNumber, <<Option(sOpt, NameLiteral(sYes)),
                                            Option(sFoo, NameLiteral(sYes))>>)))>>),
      SimpleMessage(<<Text(sNIs), ExpressionPart(Expression(NumberLiteralOf(15, 1),
                        Function(sInteger,
                                 <<Option(sMaximumFractionDigits, NumberLiteral(2))>>)))>>),
      SimpleMessage(<<Text(sNIs), ExpressionPart(Expression(Variable(sN),
                        Function(sNumber, <<Option(sSignDisplay, NameLiteral(sAlways))>>)))>>),
      SimpleMessage(<<Text(sNIs), ExpressionPart(Expression(Variable(sN),
                        Function(sNumber, <<Option(sOpt, Variable(sName))>>)))>>),
      ComplexPattern(<<LocalDeclaration(sX, VarFunc(sN, sNumber))>>, ValueOfX),
      ComplexPattern(<<InputDeclaration(VarFunc(sName, sString)),
                       LocalDeclaration(sX, Expression(Variable(sName), NoAnnotation))>>, ValueOfXY),
      YesNoString,
      ComplexMatcher(<<InputDeclaration(StringSelector(sA))>>, <<StringSelector(sA)>>,
                     <<Variant(<<NameLiteral(sYes)>>, <<Text(sApple)>>),
                       Variant(<<CatchAllKey>>,
                               <<ExpressionPart(Expression(Variable(sN), NoAnnotation)),
                                 Text(sApples)>>)>>) }

ConcurrentInputs ==
    { <<>>,
      (sName :> Str(sMF2)) @@ (sN :> Num(1)) @@ (sA :> Str(sYes)) @@ (sB :> Str(sNo)),
      (sName :> Str(sYes)) @@ (sN :> Num(3)) @@ (sA :> Str(sNo)) @@ (sB :> Str(sYes))
          @@ (sY :> Str(sNo)) }

\* one call alone first, then the same call again while a second call with its own input
\* map runs
InitConcurrent ==
    \E message \in ConcurrentMessages, in1 \in ConcurrentInputs, in2 \in ConcurrentInputs :
        StartWith(message, in1, NewExecuter(in2, "ready"))

NextConcurrent ==
    \/ Next
    \/ Again
    \/ Switch

SpecConcurrent == InitConcurrent /\ [][NextConcurrent]_vars

\* C17: a render that runs while another render of the same Template runs, each with its
\* own input map and executer, gives the output and error it gives alone, under every
\* interleaving of their steps.
C17_ConcurrentAsAlone ==
    /\ (earlier.set /\ Self = 1 /\ pc = "done") => (out = earlier.out /\ err = earlier.err)
    /\ (earlier.set /\ other.id = 1 /\ other.pc = "done")
           => (other.out = earlier.out /\ other.err = earlier.err)

\* two errors that are the same but for which of the errors of a set they have
SameBut(e1, e2, named) ==
    /\ e1 \ named = e2 \ named
    /\ (e1 \cap named = {}) <=> (e2 \cap named = {})

\* the errors that name an option number does not know
OptionErrors == {unsupportedOption(k) : k \in RangeFirstOf(ast)}
SameButOptionName(e1, e2) == SameBut(e1, e2, OptionErrors)

\* what is left of it: the output is the output of the call alone, and so is the error but
\* for the option it names when number does not know several
ConcurrentAsAloneButOptionName ==
    /\ (earlier.set /\ Self = 1 /\ pc = "done")
           => (out = earlier.out /\ SameButOptionName(err, earlier.err))
    /\ (earlier.set /\ other.id = 1 /\ other.pc = "done")
           => (other.out = earlier.out /\ SameButOptionName(other.err, earlier.err))

\* the call of integer has returned while another call ran: its output has no fraction
IntegerCalledConcurrently ==
    /\ earlier.set
    /\ Self = 1
    /\ pc = "done"
    /\ other.pc = "done"
    /\ other.input /= input
    /\ out = sNIs \o <<"2">>
    /\ err = {}

-----------------------------------------------------------------------------
(* The printer: the String methods of parse/ast.go *)

\* sliceToString, of the strings of the nodes
RECURSIVE sliceToString(_, _)
sliceToString(strings, sep) ==
    IF strings = <<>> THEN <<>>
    ELSE IF Len(strings) = 1 THEN strings[1]
    ELSE strings[1] \o sep \o sliceToString(Tail(strings), sep)

\* the mark a String method leaves where it calls String on a nil Value, body or message;
\* a text with the mark is no text: the call panicked
NilDereference == "panic: nil pointer dereference"
Panics(s) == \E i \in DOMAIN s : s[i] = NilDereference

\* Text.String
TextString(s) == Escape(s, {"\\", "{", "}"})
\* ReservedText.String
ReservedTextString(s) == Escape(s, {"\\", "{", "}", "|"})

\* String of a Value, VariantKey or ReservedBody; a nil one has no String method to call
ValueString(value) ==
    CASE value.k = "variable" -> VariableString(value.s)
      [] value.k = "name" -> NameLiteralString(value.s)
      [] value.k = "quoted" -> QuotedLiteralString(value.s)
      [] value.k = "number" -> NumberLiteralString(value.n, value.scale)
      [] value.k = "reservedText" -> ReservedTextString(value.s)
      [] value.k = "*" -> <<"*">>
      [] OTHER -> <<NilDereference>>

\* Option.String: the Value is not checked for nil
OptionString(option) ==
    IdentifierString(option) \o <<" ", "=", " ">>
    \o ValueString(option.value)
\* Attribute.String
AttributeString(attribute) ==
    IF attribute.value.k = "nil" THEN <<"@">> \o IdentifierString(attribute)
    ELSE <<"@">> \o IdentifierString(attribute) \o <<" ", "=", " ">>
         \o ValueString(attribute.value)

OptionsString(options) ==
    sliceToString([i \in DOMAIN options |-> OptionString(options[i])], <<" ">>)
AttributesString(attributes) ==
    sliceToString([i \in DOMAIN attributes |-> AttributeString(attributes[i])], <<" ">>)

\* Function.String, PrivateUseAnnotation.String, ReservedAnnotation.String
AnnotationString(annotation) ==
    IF annotation.a = "function"
    THEN IF Len(annotation.options) = 0 THEN <<":">> \o IdentifierString(annotation)
         ELSE <<":">> \o IdentifierString(annotation) \o <<" ">>
              \o OptionsString(annotation.options)
    ELSE annotation.start
         \o sliceToString([i \in DOMAIN annotation.ReservedBody |->
                              ValueString(annotation.ReservedBody[i])], <<>>)

\* Expression.String
ExpressionString(e) ==
    <<"{">>
    \o (IF e.operand.k /= "nil" THEN <<" ">> \o ValueString(e.operand) ELSE <<>>)
    \o (IF e.annotation.a /= "nil" THEN <<" ">> \o AnnotationString(e.annotation) ELSE <<>>)
    \o (IF Len(e.Attributes) > 0 THEN <<" ">> \o AttributesString(e.Attributes) ELSE <<>>)
    \o <<"}">>

ExpressionsString(expressions) ==
    sliceToString([i \in DOMAIN expressions |-> ExpressionString(expressions[i])], <<" ">>)

\* Markup.String: nothing for the Typ Unspecified; the options of a closing markup are
\* not printed
MarkupString(part) ==
    LET identifier == IdentifierString(part.expr.annotation)
        options == IF Len(part.expr.annotation.options) > 0
                   THEN <<" ">> \o OptionsString(part.expr.annotation.options) ELSE <<>>
        attributes == IF Len(part.expr.Attributes) > 0
                      THEN <<" ">> \o AttributesString(part.expr.Attributes) ELSE <<>>
    IN  CASE part.Typ = "Open" -> <<"{", " ", "#">> \o identifier \o options \o attributes \o <<"}">>
          [] part.Typ = "Close" -> <<"{", " ", "/">> \o identifier \o attributes \o <<" ", "}">>
          [] part.Typ = "SelfClose" ->
                <<"{", " ", "#">> \o identifier \o options \o attributes \o <<" ", "/", "}">>
          [] OTHER -> <<>>

\* String of a PatternPart
PatternPartString(part) ==
    IF part.p = "text" THEN TextString(part.text)
    ELSE IF part.p = "expression" THEN ExpressionString(part.expr)
    ELSE MarkupString(part)

\* SimpleMessage.String
SimpleMessageString(parts) ==
    sliceToString([i \in DOMAIN parts |-> PatternPartString(parts[i])], <<>>)

\* QuotedPattern.String
QuotedPatternString(parts) == <<"{", "{">> \o SimpleMessageString(parts) \o <<"}", "}">>

\* Variant.String
VariantString(variant) ==
    sliceToString([i \in DOMAIN variant.Keys |-> ValueString(variant.Keys[i])], <<" ">>)
    \o <<" ">> \o QuotedPatternString(variant.QuotedPattern)

\* Matcher.String
MatcherString(message) ==
    <<".", "m", "a", "t", "c", "h", " ">> \o ExpressionsString(message.MatchStatements)
    \o <<"\n">>
    \o sliceToString([i \in DOMAIN message.Variants |-> VariantString(message.Variants[i])],
                     <<"\n">>)

\* InputDeclaration.String, LocalDeclaration.String, ReservedStatement.String
DeclarationString(decl) ==
    IF decl.d = "input" THEN <<".", "i", "n", "p", "u", "t", " ">> \o ExpressionString(decl.expr)
    ELSE IF decl.d = "local"
    THEN <<".", "l", "o", "c", "a", "l", " ">> \o VariableString(decl.variable)
         \o <<" ", "=", " ">> \o ExpressionString(decl.expr)
    ELSE IF Len(decl.ReservedBody) > 0
    THEN <<".">> \o decl.Keyword \o <<" ">>
         \o sliceToString([i \in DOMAIN decl.ReservedBody |-> ValueString(decl.ReservedBody[i])],
                          <<" ">>)
         \o <<" ">> \o ExpressionsString(decl.Expressions)
    ELSE <<".">> \o decl.Keyword \o <<" ">> \o ExpressionsString(decl.Expressions)

\* ComplexMessage.String: String is called on the ComplexBody, nil or not
ComplexBodyString(message) ==
    IF message.body = "nil" THEN <<NilDereference>>
    ELSE IF message.body = "matcher" THEN MatcherString(message)
    ELSE QuotedPatternString(message.QuotedPattern)
ComplexMessageString(message) ==
    IF Len(message.Declarations) = 0 THEN ComplexBodyString(message)
    ELSE sliceToString([i \in DOMAIN message.Declarations |->
                           DeclarationString(message.Declarations[i])], <<"\n">>)
         \o <<"\n">> \o ComplexBodyString(message)

\* AST.String: String is called on the Message, nil or not
MessageString(message) ==
    IF message.m = "simple" THEN SimpleMessageString(message.QuotedPattern)
    ELSE IF message.m = "complex" THEN ComplexMessageString(message)
    ELSE <<NilDereference>>

-----------------------------------------------------------------------------
(* AST.validate (parse/ast.go)                                             *)
(*                                                                         *)
(* An error of validate is its text in three pieces: path, the dotted      *)
(* prefix the wrapping calls build ("ast.simpleMessage.expression"), msg,  *)
(* the text after the colon, and quoted, the texts of the nodes that       *)
(* validateSlice appends in quotes, innermost first.  Every NumberLiteral  *)
(* is finite.                                                              *)

NoError == [path |-> <<>>, msg |-> "", quoted |-> <<>>]
\* errors.New("kind: msg")
errorsNew(kind, msg) == [path |-> <<kind>>, msg |-> msg, quoted |-> <<>>]
\* validate does not return: a String method it called panicked
Panicked == [path |-> <<>>, msg |-> NilDereference, quoted |-> <<>>]
\* fmt.Errorf("kind.%w", e), for an error e that is not nil
Wrap(kind, e) ==
    IF e = NoError \/ e = Panicked THEN e ELSE [e EXCEPT !.path = <<kind>> \o @]

\* validateSlice: the error of the first node that has one, followed by the String of the
\* node in quotes; validated[i] is what s[i].validate() returns, printed[i] what
\* s[i].String() returns; the call does not return when validate or String panics, on a
\* nil node or inside a node
validateSlice(s, validated, printed) ==
    LET failing == {i \in DOMAIN s : validated[i] /= NoError}
        i == CHOOSE k \in failing : \A j \in failing : k <= j
    IN  IF failing = {} THEN NoError
        ELSE IF validated[i] = Panicked THEN Panicked
        ELSE IF Panics(printed[i]) THEN Panicked
        ELSE [validated[i] EXCEPT !.quoted = Append(@, printed[i])]

\* the first error of a sequence of checks, in order
firstError(checks) ==
    LET failing == {i \in DOMAIN checks : checks[i] /= NoError}
    IN  IF failing = {} THEN NoError
        ELSE checks[CHOOSE k \in failing : \A j \in failing : k <= j]

\* Variable.validate, NameLiteral.validate, QuotedLiteral.validate, NumberLiteral.validate,
\* CatchAllKey.validate, ReservedText.validate; a nil Value, VariantKey or ReservedBody
\* has no validate method to call
validateValue(value) ==
    IF value.k = "nil" THEN Panicked
    ELSE IF value.k = "variable" /\ value.s = <<>> THEN errorsNew("variable", "name is empty")
    ELSE IF value.k = "name" /\ value.s = <<>> THEN errorsNew("nameLiteral", "literal is empty")
    ELSE IF value.k = "reservedText" /\ value.s = <<>>
    THEN errorsNew("reservedText", "text is empty")
    ELSE NoError

\* validateSlice of Values: the ReservedBody of an annotation or a statement, the Keys of
\* a variant
validateValues(values) ==
    validateSlice(values, [i \in DOMAIN values |-> validateValue(values[i])],
                  [i \in DOMAIN values |-> ValueString(values[i])])

\* Identifier.validate
validateIdentifier(name) ==
    IF name = <<>> THEN errorsNew("identifier", "name is empty") ELSE NoError

\* Option.validate
validateOption(option) ==
    firstError(<<Wrap("option", validateIdentifier(option.name)),
                 IF option.value.k = "nil" THEN errorsNew("option", "value is required")
                 ELSE NoError,
                 Wrap("option", validateValue(option.value))>>)
validateOptions(options) ==
    validateSlice(options, [i \in DOMAIN options |-> validateOption(options[i])],
                  [i \in DOMAIN options |-> OptionString(options[i])])

\* Attribute.validate
validateAttribute(attribute) ==
    firstError(<<Wrap("attribute", validateIdentifier(attribute.name)),
                 IF attribute.value.k = "nil" THEN NoError
                 ELSE Wrap("attribute", validateValue(attribute.value))>>)
validateAttributes(attributes) ==
    validateSlice(attributes, [i \in DOMAIN attributes |-> validateAttribute(attributes[i])],
                  [i \in DOMAIN attributes |-> AttributeString(attributes[i])])

\* isPrivateStart, isReservedStart
PrivateStart == {<<"^">>, <<"&">>}
ReservedStart == {<<"!">>, <<"@">>, <<"#">>, <<"%">>, <<"*">>, <<"<">>, <<">">>, <<"?">>, <<"~">>}

\* Function.validate, PrivateUseAnnotation.validate, ReservedAnnotation.validate
validateAnnotation(annotation) ==
    IF annotation.a = "function"
    THEN firstError(<<Wrap("function", validateIdentifier(annotation.name)),
                      Wrap("function", validateOptions(annotation.options))>>)
    ELSE IF annotation.a = "privateUse"
    THEN IF annotation.start \notin PrivateStart
         THEN errorsNew("privateUseAnnotation", "start must be a private start char")
         ELSE Wrap("privateUseAnnotation", validateValues(annotation.ReservedBody))
    ELSE IF annotation.a = "reserved"
    THEN IF annotation.start \notin ReservedStart
         THEN errorsNew("reservedAnnotation", "start must be a reserved start char")
         ELSE Wrap("reservedAnnotation", validateValues(annotation.ReservedBody))
    ELSE NoError

\* Expression.validate
validateExpression(e) ==
    IF e.operand.k = "nil" /\ e.annotation.a = "nil"
    THEN errorsNew("expression", "at least one of operand or annotation is required")
    ELSE firstError(<<IF e.operand.k = "nil" THEN NoError
                      ELSE Wrap("expression", validateValue(e.operand)),
                      Wrap("expression", validateAnnotation(e.annotation)),
                      Wrap("expression", validateAttributes(e.Attributes))>>)
validateExpressions(expressions) ==
    validateSlice(expressions,
                  [i \in DOMAIN expressions |-> validateExpression(expressions[i])],
                  [i \in DOMAIN expressions |-> ExpressionString(expressions[i])])

\* Markup.validate
validateMarkup(e) ==
    firstError(<<Wrap("markup", validateIdentifier(e.annotation.name)),
                 Wrap("markup", validateOptions(e.annotation.options)),
                 Wrap("markup", validateAttributes(e.Attributes))>>)

\* Text.validate, Expression.validate, Markup.validate of a PatternPart
validatePart(part) ==
    IF part.p = "expression" THEN validateExpression(part.expr)
    ELSE IF part.p = "markup" THEN validateMarkup(part.expr)
    ELSE NoError
validateParts(parts) ==
    validateSlice(parts, [i \in DOMAIN parts |-> validatePart(parts[i])],
                  [i \in DOMAIN parts |-> PatternPartString(parts[i])])

\* QuotedPattern.validate
validateQuotedPattern(parts) == Wrap("quotedPattern", validateParts(parts))

\* Variant.validate
validateVariant(variant) ==
    IF Len(variant.Keys) = 0 THEN errorsNew("variant", "at least one key is required")
    ELSE firstError(<<Wrap("variant", validateValues(variant.Keys)),
                      Wrap("variant", validateQuotedPattern(variant.QuotedPattern))>>)

\* Matcher.validate
validateMatcher(message) ==
    IF Len(message.MatchStatements) = 0
    THEN errorsNew("matcher", "at least one match statement is required")
    ELSE IF Len(message.Variants) = 0
    THEN errorsNew("matcher", "at least one variant is required")
    ELSE firstError(<<Wrap("matcher", validateExpressions(message.MatchStatements)),
                      Wrap("matcher", validateSlice(message.Variants,
                            [i \in DOMAIN message.Variants |->
                                validateVariant(message.Variants[i])],
                            [i \in DOMAIN message.Variants |->
                                VariantString(message.Variants[i])]))>>)

\* keywordMatch, keywordLocal, keywordInput
keywords == {<<"m", "a", "t", "c", "h">>, <<"l", "o", "c", "a", "l">>, <<"i", "n", "p", "u", "t">>}

\* InputDeclaration.validate
validateInputDeclaration(decl) ==
    IF decl.expr.operand.k = "nil"
    THEN errorsNew("inputDeclaration", "expression operand is required")
    ELSE IF decl.expr.operand.k /= "variable"
    THEN errorsNew("inputDeclaration", "expression operand must be a variable")
    ELSE Wrap("inputDeclaration", validateExpression(decl.expr))

\* LocalDeclaration.validate: the Expression, and the Expression again
validateLocalDeclaration(decl) ==
    firstError(<<Wrap("localDeclaration", validateExpression(decl.expr)),
                 Wrap("localDeclaration", validateExpression(decl.expr))>>)

\* ReservedStatement.validate
validateReservedStatement(decl) ==
    IF decl.Keyword = <<>> THEN errorsNew("reservedStatement", "keyword is empty")
    ELSE IF decl.Keyword \in keywords
    THEN errorsNew("reservedStatement", "keyword is not allowed")
    ELSE IF Len(decl.Expressions) = 0
    THEN errorsNew("reservedStatement", "at least one expression is required")
    ELSE firstError(<<Wrap("reservedStatement", validateValues(decl.ReservedBody)),
                      Wrap("reservedStatement", validateExpressions(decl.Expressions))>>)

validateDeclaration(decl) ==
    IF decl.d = "input" THEN validateInputDeclaration(decl)
    ELSE IF decl.d = "local" THEN validateLocalDeclaration(decl)
    ELSE validateReservedStatement(decl)

\* SimpleMessage.validate
validateSimpleMessage(message) == Wrap("simpleMessage", validateParts(message.QuotedPattern))

\* ComplexMessage.validate: the body first, the declarations after it
validateComplexMessage(message) ==
    IF message.body = "nil" THEN errorsNew("complexMessage", "complexBody is required")
    ELSE firstError(<<Wrap("complexMessage",
                           IF message.body = "matcher" THEN validateMatcher(message)
                           ELSE validateQuotedPattern(message.QuotedPattern)),
                      Wrap("complexMessage",
                           validateSlice(message.Declarations,
                            [i \in DOMAIN message.Declarations |->
                                validateDeclaration(message.Declarations[i])],
                            [i \in DOMAIN message.Declarations |->
                                DeclarationString(message.Declarations[i])]))>>)

\* AST.validate
validate(message) ==
    IF message.m = "nil" THEN errorsNew("ast", "message is required")
    ELSE Wrap("ast", IF message.m = "simple" THEN validateSimpleMessage(message)
                     ELSE validateComplexMessage(message))

\* the application calls validate on the AST it holds; err is {} for nil, or holds the
\* one error returned; a panic of a String method ends the call
Validate ==
    /\ pc = "ready"
    /\ err' = (IF validate(ast) \in {NoError, Panicked} THEN {} ELSE {validate(ast)})
    /\ pc' = (IF validate(ast) = Panicked THEN "panic" ELSE "validated")
    /\ UNCHANGED <<ast, input, variables, out, declVars, patternVars, matcherVars, calls,
                   evaluated, rangeFirst, locale, callerOptions, callVars>>

-----------------------------------------------------------------------------
(* ASTs to validate: well-formed ones, and ones with an empty variable     *)
(* name, an empty function name, an empty expression, a matcher without    *)
(* selectors or variants, a variant without keys or with too many, a       *)
(* complex message without a body, no message                              *)

MaxSelectors == 2
MaxKeys == 2
MaxMatcherVariants == 2

ValidateValues == {Variable(sX), Variable(<<>>), NameLiteral(sA), NoValue}
ValidateOptions ==
    {<<>>}
    \cup {<<Option(sStyle, value)>> : value \in {Variable(<<>>), NameLiteral(sPercent), NoValue}}
ValidateAnnotations ==
    {NoAnnotation, PrivateUseAnnotation(<<"^">>), Function(<<>>, <<>>)}
    \cup {Function(sNumber, options) : options \in ValidateOptions}
ValidateAttributes == {<<>>, <<Attribute(sA, NoValue)>>, <<Attribute(sA, Variable(<<>>))>>}
ValidateExpressions ==
    {ExpressionWith(operand, annotation, attributes) :
        operand \in ValidateValues, annotation \in ValidateAnnotations,
        attributes \in ValidateAttributes}
\* a well-formed expression, and one of each kind that is not
FewExpressions ==
    {Expression(Variable(sX), NoAnnotation), Expression(Variable(<<>>), NoAnnotation),
     Expression(Variable(sX), Function(<<>>, <<>>)), NoExpression}
ValidateDeclarations ==
    {InputDeclaration(e) : e \in {f \in FewExpressions : f.operand.k = "variable"}}
    \cup {LocalDeclaration(name, e) : name \in {sX, <<>>},
                                      e \in FewExpressions \cup {Expression(NameLiteral(sA), NoAnnotation)}}
    \cup {ReservedStatementOf(sFoo, <<e>>) : e \in FewExpressions}
    \cup {ReservedStatementWith(sFoo, <<reservedText>>, <<Expression(Variable(sX), NoAnnotation)>>) :
            reservedText \in {ReservedText(<<>>), ReservedText(sA)}}
ValidateVariants ==
    {Variant(keys, <<Text(sYes)>>) : keys \in SeqsUpTo({NameLiteral(sA), CatchAllKey}, MaxKeys)}
ValidateMessages ==
    {NilMessage, ComplexNoBody(<<>>)}
    \cup {SimpleMessage(<<Text(sHello), ExpressionPart(e)>>) : e \in ValidateExpressions}
    \cup {SimpleMessage(<<ExpressionPart(e), ExpressionPart(f)>>) :
            e \in FewExpressions, f \in FewExpressions}
    \cup {SimpleMessage(<<MarkupOf(sB, options, attributes)>>) :
            options \in ValidateOptions, attributes \in ValidateAttributes}
    \cup {ComplexPattern(<<decl>>, <<Text(sHello), ExpressionPart(e)>>) :
            decl \in ValidateDeclarations,
            e \in {Expression(Variable(sX), NoAnnotation), Expression(Variable(<<>>), NoAnnotation)}}
    \cup {ComplexMatcher(<<>>, selectors, variants) :
            selectors \in SeqsUpTo({StringSelector(sA), VarFunc(<<>>, sString)}, MaxSelectors),
            variants \in SeqsUpTo(ValidateVariants, MaxMatcherVariants)}

\* ASTs with a nil VariantKey or a nil ReservedBody
NilNodeMessages ==
    {ComplexMatcher(<<>>, <<StringSelector(sA)>>, <<Variant(keys, <<Text(sYes)>>)>>) :
        keys \in {<<NoValue>>, <<NameLiteral(<<>>), NoValue>>, <<NameLiteral(<<>>)>>}}
    \cup {SimpleMessage(<<ExpressionPart(Expression(NoValue, annotation))>>) :
            annotation \in {ReservedAnnotationOf(<<"!">>, <<NoValue>>),
                            PrivateUseAnnotationOf(<<"^">>, <<ReservedText(<<>>), NoValue>>)}}
    \cup {ComplexPattern(<<ReservedStatementWith(sFoo, <<NoValue>>,
                                                 <<Expression(Variable(sX), NoAnnotation)>>)>>,
                         <<Text(sHello)>>)}

InitValidate == \E message \in ValidateMessages \cup NilNodeMessages : Start(message, <<>>)

NextValidate == Validate

SpecValidate == InitValidate /\ [][NextValidate]_vars

-----------------------------------------------------------------------------
(* What validate lets through *)

\* some variant of the matcher has more or fewer keys than the matcher has selectors
ArityMismatch(message) ==
    /\ message.m = "complex"
    /\ message.body = "matcher"
    /\ \E i \in DOMAIN message.Variants :
          Len(message.Variants[i].Keys) /= Len(message.MatchStatements)

\* C18: validate rejects every matcher in which the number of keys of some variant
\* differs from the number of selectors, so an AST that passes validation has as many
\* keys in every variant as the matcher has selectors.
C18_KeyArityChecked ==
    (pc = "validated" /\ ArityMismatch(ast)) => err /= {}

\* a Variable with an empty name
EmptyVariable(value) == value.k = "variable" /\ value.s = <<>>

\* the expression (or the markup kept as one) has an empty variable name as its operand
\* or as the value of an option or of an attribute
ExpressionEmptyVariable(e) ==
    \/ EmptyVariable(e.operand)
    \/ \E i \in DOMAIN e.annotation.options : EmptyVariable(e.annotation.options[i].value)
    \/ \E i \in DOMAIN e.Attributes : EmptyVariable(e.Attributes[i].value)

PatternEmptyVariable(parts) ==
    \E i \in DOMAIN parts : parts[i].p /= "text" /\ ExpressionEmptyVariable(parts[i].expr)

\* the declared variable of a .local declaration
DeclaredEmptyVariable(decl) == decl.d = "local" /\ decl.variable = <<>>

DeclarationEmptyVariable(decl) ==
    \/ DeclaredEmptyVariable(decl)
    \/ decl.d /= "reserved" /\ ExpressionEmptyVariable(decl.expr)
    \/ \E i \in DOMAIN decl.Expressions : ExpressionEmptyVariable(decl.Expressions[i])

\* the AST contains a Variable with an empty name
HasEmptyVariable(message) ==
    \/ PatternEmptyVariable(message.QuotedPattern)
    \/ \E i \in DOMAIN message.MatchStatements : ExpressionEmptyVariable(message.MatchStatements[i])
    \/ \E i \in DOMAIN message.Variants : PatternEmptyVariable(message.Variants[i].QuotedPattern)
    \/ \E i \in DOMAIN message.Declarations : DeclarationEmptyVariable(message.Declarations[i])

\* C19: validate rejects every AST that contains a Variable with an empty name, wherever
\* it occurs: as the operand of an expression, the value of an option or of an attribute,
\* the operand of an .input declaration, or the declared variable of a .local declaration.
C19_EmptyVariableRejected ==
    (pc = "validated" /\ HasEmptyVariable(ast)) => err /= {}

-----------------------------------------------------------------------------
(* The invalid nodes of an AST, each as the path of node kinds that leads  *)
(* to it, in the order in which validate comes to them: a node before its  *)
(* children, the children in the order of the validate method, the body of *)
(* a complex message before its declarations                               *)

Prefix(kind, paths) == [i \in DOMAIN paths |-> <<kind>> \o paths[i]]

ValuePaths(value) == IF EmptyVariable(value) THEN << <<"variable">> >> ELSE <<>>

OptionPaths(options) ==
    Flatten([i \in DOMAIN options |-> Prefix("option", ValuePaths(options[i].value))])

AttributePaths(attributes) ==
    Flatten([i \in DOMAIN attributes |-> Prefix("attribute", ValuePaths(attributes[i].value))])

IdentifierPaths(name) == IF name = <<>> THEN << <<"identifier">> >> ELSE <<>>

ExpressionPaths(e) ==
    (IF e.operand.k = "nil" /\ e.annotation.a = "nil" THEN << <<"expression">> >> ELSE <<>>)
    \o Prefix("expression",
              ValuePaths(e.operand)
              \o (IF e.annotation.a = "function"
                  THEN Prefix("function", IdentifierPaths(e.annotation.name)
                                          \o OptionPaths(e.annotation.options))
                  ELSE <<>>)
              \o AttributePaths(e.Attributes))

MarkupPaths(e) ==
    Prefix("markup", IdentifierPaths(e.annotation.name) \o OptionPaths(e.annotation.options)
                     \o AttributePaths(e.Attributes))

PatternPaths(parts) ==
    Flatten([i \in DOMAIN parts |->
                IF parts[i].p = "expression" THEN ExpressionPaths(parts[i].expr)
                ELSE IF parts[i].p = "markup" THEN MarkupPaths(parts[i].expr)
                ELSE <<>>])

ExpressionsPaths(expressions) ==
    Flatten([i \in DOMAIN expressions |-> ExpressionPaths(expressions[i])])

VariantPaths(variant) ==
    (IF variant.Keys = <<>> THEN << <<"variant">> >> ELSE <<>>)
    \o Prefix("variant", Prefix("quotedPattern", PatternPaths(variant.QuotedPattern)))

MatcherPaths(message) ==
    (IF message.MatchStatements = <<>> \/ message.Variants = <<>>
     THEN << <<"matcher">> >> ELSE <<>>)
    \o Prefix("matcher",
              ExpressionsPaths(message.MatchStatements)
              \o Flatten([i \in DOMAIN message.Variants |-> VariantPaths(message.Variants[i])]))

DeclarationPaths(decl) ==
    IF decl.d = "input" THEN Prefix("inputDeclaration", ExpressionPaths(decl.expr))
    ELSE IF decl.d = "local"
    THEN Prefix("localDeclaration",
                (IF DeclaredEmptyVariable(decl) THEN << <<"variable">> >> ELSE <<>>)
                \o ExpressionPaths(decl.expr))
    ELSE Prefix("reservedStatement", ExpressionsPaths(decl.Expressions))

InvalidPaths(message) ==
    IF message.m = "nil" THEN << <<"ast">> >>
    ELSE IF message.m = "simple"
    THEN Prefix("ast", Prefix("simpleMessage", PatternPaths(message.QuotedPattern)))
    ELSE Prefix("ast", Prefix("complexMessage",
                (IF message.body = "matcher" THEN MatcherPaths(message)
                 ELSE Prefix("quotedPattern", PatternPaths(message.QuotedPattern)))
                \o Flatten([i \in DOMAIN message.Declarations |->
                               DeclarationPaths(message.Declarations[i])])))

\* C20: for an AST that is invalid (no message, an empty variable name, an empty function
\* name, an expression with neither operand nor annotation, a matcher without selectors
\* or without variants, a variant without keys) validate returns one error, for the first
\* invalid node it comes to, and the error text has the dotted path of node kinds from
\* `ast` down to that node.
C20_FirstInvalidNodeReported ==
    (pc = "validated" /\ InvalidPaths(ast) /= <<>>)
        => (Cardinality(err) = 1 /\ \A e \in err : e.path = Head(InvalidPaths(ast)))

-----------------------------------------------------------------------------
(* The parser.  A reader takes the text at its position and returns whether *)
(* it could read, what it read and the rest of the text.  The grammar is   *)
(* the one of the specification: simple and complex messages, declarations, *)
(* matchers, expressions with options and attributes, markup, and literals *)
(* in the quoted, the number and the name form.                            *)

Whitespace == {" ", "\t", "\n", "\r"}
DigitChar == {Digits[i] : i \in DOMAIN Digits}
NameStart ==
    {LowerLetters[i] : i \in DOMAIN LowerLetters}
    \cup {UpperLetters[i] : i \in DOMAIN UpperLetters} \cup {"_"}
NameChar == NameStart \cup DigitChar \cup {"-", "."}

Read(ok, v, rest) == [ok |-> ok, v |-> v, rest |-> rest]

\* the text without its first k characters
Drop(s, k) == SubSeq(s, k + 1, Len(s))
StartsWith(s, prefix) == Len(s) >= Len(prefix) /\ SubSeq(s, 1, Len(prefix)) = prefix

\* the length of the longest run of characters of set at the start of s
RECURSIVE spanOf(_, _)
spanOf(s, set) == IF s /= <<>> /\ Head(s) \in set THEN 1 + spanOf(Tail(s), set) ELSE 0

\* a name: a name-start character and the name characters after it
readName(s) ==
    IF s = <<>> THEN Read(FALSE, <<>>, s)
    ELSE IF Head(s) \notin NameStart THEN Read(FALSE, <<>>, s)
    ELSE Read(TRUE, SubSeq(s, 1, spanOf(s, NameChar)), Drop(s, spanOf(s, NameChar)))

RECURSIVE skipWhitespace(_)
skipWhitespace(s) ==
    IF s /= <<>> /\ Head(s) \in Whitespace THEN skipWhitespace(Tail(s)) ELSE s

\* the first character after the whitespace, if there is one
NextChar(s) == IF skipWhitespace(s) = <<>> THEN "" ELSE Head(skipWhitespace(s))

\* readRun, with the characters read so far
RECURSIVE readRunFrom(_, _, _, _)
readRunFrom(s, stop, escapes, sofar) ==
    IF s = <<>> THEN Read(TRUE, sofar, s)
    ELSE IF Head(s) \in stop THEN Read(TRUE, sofar, s)
    ELSE IF Head(s) = "\\"
    THEN IF Len(s) >= 2 /\ s[2] \in escapes
         THEN readRunFrom(Tail(Tail(s)), stop, escapes, Append(sofar, s[2]))
         ELSE Read(FALSE, sofar, s)
    ELSE readRunFrom(Tail(s), stop, escapes, Append(sofar, Head(s)))

\* the characters up to one of stop, a backslash escape giving the escaped character
readRun(s, stop, escapes) == readRunFrom(s, stop, escapes, <<>>)

\* an identifier: a name, or a namespace, a colon and a name
Identifier(namespace, name) == [namespace |-> namespace, name |-> name]
namespacedIdentifier(s, namespace, name) ==
    IF ~name.ok THEN Read(FALSE, Identifier(<<>>, <<>>), s)
    ELSE Read(TRUE, Identifier(namespace, name.v), name.rest)
identifierFrom(s, name) ==
    IF ~name.ok THEN Read(FALSE, Identifier(<<>>, <<>>), s)
    ELSE IF name.rest /= <<>> /\ Head(name.rest) = ":"
    THEN namespacedIdentifier(s, name.v, readName(Tail(name.rest)))
    ELSE Read(TRUE, Identifier(<<>>, name.v), name.rest)
parseIdentifier(s) == identifierFrom(s, readName(s))

\* a quoted literal, after its opening |
quotedFrom(s, run) ==
    IF run.ok /\ run.rest /= <<>> THEN Read(TRUE, QuotedLiteral(run.v), Tail(run.rest))
    ELSE Read(FALSE, NoValue, s)
parseQuoted(s) == quotedFrom(s, readRun(s, {"|"}, {"\\", "|"}))

\* the float64 of the digits of a number literal: mantissa * 10^exponent, in lowest scale
RECURSIVE lowestScale(_, _)
lowestScale(n, scale) ==
    IF scale > 0 /\ n % 10 = 0 THEN lowestScale(n \div 10, scale - 1)
    ELSE NumberLiteralOf(n, scale)
ParseFloat(mantissa, exponent) ==
    IF exponent >= 0 THEN NumberLiteralOf(mantissa * pow10(exponent), 0)
    ELSE lowestScale(mantissa, 0 - exponent)

\* the length of the integer part of a number literal at the start of s: 0, or a digit of
\* 1 to 9 and the digits after it
intSpan(s) ==
    IF s = <<>> THEN 0
    ELSE IF Head(s) = "0" THEN 1
    ELSE spanOf(s, DigitChar)
\* the length of the fraction of a number literal at the start of s, its period included;
\* -1 when a period has no digit after it
fracSpan(s) ==
    IF s = <<>> THEN 0
    ELSE IF Head(s) /= "." THEN 0
    ELSE IF spanOf(Tail(s), DigitChar) = 0 THEN -1
    ELSE 1 + spanOf(Tail(s), DigitChar)
\* the length of the exponent of a number literal at the start of s, its e and its sign
\* included; -1 when an e has no digit after it
expSpan(s) ==
    IF s = <<>> THEN 0
    ELSE IF Head(s) \notin {"e", "E"} THEN 0
    ELSE IF Len(s) >= 2 /\ s[2] \in {"+", "-"}
    THEN IF spanOf(Drop(s, 2), DigitChar) = 0 THEN -1 ELSE 2 + spanOf(Drop(s, 2), DigitChar)
    ELSE IF spanOf(Tail(s), DigitChar) = 0 THEN -1 ELSE 1 + spanOf(Tail(s), DigitChar)

\* the number of an integer part, a fraction and an exponent as the spans give them
numberOf(int, frac, exp) ==
    ParseFloat(AtoiDigits(int \o (IF frac = <<>> THEN <<>> ELSE Tail(frac))),
               (IF exp = <<>> THEN 0 ELSE Atoi(Tail(exp)))
               - (IF frac = <<>> THEN 0 ELSE Len(frac) - 1))
negate(number) == NumberLiteralOf(0 - number.n, number.scale)

\* a number literal without its sign: the JSON number grammar
exponentFrom(s, i, f, e) ==
    IF e < 0 THEN Read(FALSE, NoValue, s)
    ELSE Read(TRUE,
              numberOf(SubSeq(s, 1, i), SubSeq(s, i + 1, i + f), SubSeq(s, i + f + 1, i + f + e)),
              Drop(s, i + f + e))
fractionFrom(s, i, f) ==
    IF f < 0 THEN Read(FALSE, NoValue, s) ELSE exponentFrom(s, i, f, expSpan(Drop(s, i + f)))
integerFrom(s, i) ==
    IF i = 0 THEN Read(FALSE, NoValue, s) ELSE fractionFrom(s, i, fracSpan(Drop(s, i)))
parseUnsigned(s) == integerFrom(s, intSpan(s))
negative(number) == Read(number.ok, negate(number.v), number.rest)
parseNumber(s) ==
    IF s /= <<>> /\ Head(s) = "-" THEN negative(parseUnsigned(Tail(s))) ELSE parseUnsigned(s)

\* a literal: quoted, a number or a name
nameLiteral(name) == Read(name.ok, NameLiteral(name.v), name.rest)
parseLiteral(s) ==
    IF s = <<>> THEN Read(FALSE, NoValue, s)
    ELSE IF Head(s) = "|" THEN parseQuoted(Tail(s))
    ELSE IF Head(s) \in DigitChar \cup {"-"} THEN parseNumber(s)
    ELSE nameLiteral(readName(s))

\* a variable: $ and a name
variable(name) == Read(name.ok, Variable(name.v), name.rest)
\* a literal or a variable: an operand, or the value of an option or an attribute
parseValue(s) ==
    IF s /= <<>> /\ Head(s) = "$" THEN variable(readName(Tail(s))) ELSE parseLiteral(s)
ValueStart == NameStart \cup DigitChar \cup {"$", "|", "-"}

\* a sequence of nodes from its first node and the ones after it
prepend(first, more) == Read(more.ok, <<first.v>> \o more.v, more.rest)

\* an option: an identifier, = and a value, whitespace allowed around the =
optionOf(s, identifier, value) ==
    Read(value.ok, OptionNS(identifier.namespace, identifier.name, value.v), value.rest)
optionFrom(s, identifier) ==
    IF ~identifier.ok THEN Read(FALSE, NoValue, s)
    ELSE IF NextChar(identifier.rest) /= "=" THEN Read(FALSE, NoValue, s)
    ELSE optionOf(s, identifier.v, parseValue(skipWhitespace(Tail(skipWhitespace(identifier.rest)))))
parseOption(s) == optionFrom(s, parseIdentifier(s))

\* the options after an identifier, whitespace before each one
RECURSIVE parseOptions(_)
optionsAfter(s, option) ==
    IF ~option.ok THEN Read(FALSE, <<>>, s) ELSE prepend(option, parseOptions(option.rest))
parseOptions(s) ==
    IF skipWhitespace(s) = s THEN Read(TRUE, <<>>, s)
    ELSE IF NextChar(s) \notin NameStart THEN Read(TRUE, <<>>, s)
    ELSE optionsAfter(s, parseOption(skipWhitespace(s)))

\* an attribute, after its @: an identifier and, after a =, a value
attributeOf(s, identifier, value) ==
    Read(value.ok, AttributeNS(identifier.namespace, identifier.name, value.v), value.rest)
attributeFrom(s, identifier) ==
    IF ~identifier.ok THEN Read(FALSE, NoValue, s)
    ELSE IF NextChar(identifier.rest) = "="
    THEN attributeOf(s, identifier.v,
                     parseValue(skipWhitespace(Tail(skipWhitespace(identifier.rest)))))
    ELSE Read(TRUE, AttributeNS(identifier.v.namespace, identifier.v.name, NoValue),
              identifier.rest)
parseAttribute(s) == attributeFrom(s, parseIdentifier(s))

\* the attributes at the end of an expression or a markup, whitespace before each one
RECURSIVE parseAttributes(_)
attributesAfter(s, attribute) ==
    IF ~attribute.ok THEN Read(FALSE, <<>>, s)
    ELSE prepend(attribute, parseAttributes(attribute.rest))
parseAttributes(s) ==
    IF skipWhitespace(s) = s THEN Read(TRUE, <<>>, s)
    ELSE IF NextChar(s) /= "@" THEN Read(TRUE, <<>>, s)
    ELSE attributesAfter(s, parseAttribute(Tail(skipWhitespace(s))))

\* a part of a reserved body: a quoted literal, or reserved text up to whitespace
reservedText(run) == Read(run.ok /\ run.v /= <<>>, ReservedText(run.v), run.rest)
parseReservedBodyPart(s) ==
    IF Head(s) = "|" THEN parseQuoted(Tail(s))
    ELSE reservedText(readRun(s, Whitespace \cup {"|", "{", "}", "@"}, {"\\", "{", "}", "|"}))

\* the reserved body: its parts, whitespace allowed between them, up to a brace or an @
RECURSIVE parseReservedBody(_)
reservedBodyAfter(s, part) ==
    IF ~part.ok THEN Read(FALSE, <<>>, s) ELSE prepend(part, parseReservedBody(part.rest))
parseReservedBody(s) ==
    IF NextChar(s) \in {"", "{", "}", "@"} THEN Read(TRUE, <<>>, s)
    ELSE reservedBodyAfter(s, parseReservedBodyPart(skipWhitespace(s)))

\* the characters an annotation starts with: a colon, a private-use start or a reserved
\* start; an @ starts an attribute and a # a markup
AnnotationStart ==
    {":"} \cup {start[1] : start \in PrivateStart \cup (ReservedStart \ {<<"@">>, <<"#">>})}

\* a function: an identifier and its options
functionOf(identifier, options) ==
    Read(options.ok, FunctionNS(identifier.namespace, identifier.name, options.v), options.rest)
functionFrom(s, identifier) ==
    IF ~identifier.ok THEN Read(FALSE, NoAnnotation, s)
    ELSE functionOf(identifier.v, parseOptions(identifier.rest))
privateUseOf(start, reservedBody) ==
    Read(reservedBody.ok, PrivateUseAnnotationOf(start, reservedBody.v), reservedBody.rest)
reservedOf(start, reservedBody) ==
    Read(reservedBody.ok, ReservedAnnotationOf(start, reservedBody.v), reservedBody.rest)

\* an annotation, at its first character
parseAnnotation(s) ==
    IF Head(s) = ":" THEN functionFrom(s, parseIdentifier(Tail(s)))
    ELSE IF <<Head(s)>> \in PrivateStart THEN privateUseOf(<<Head(s)>>, parseReservedBody(Tail(s)))
    ELSE reservedOf(<<Head(s)>>, parseReservedBody(Tail(s)))

\* the closing brace of an expression or a markup, after whitespace
closeBrace(s, node, rest) ==
    IF NextChar(rest) /= "}" THEN Read(FALSE, node, s)
    ELSE Read(TRUE, node, Tail(skipWhitespace(rest)))

\* an expression, after its opening brace and the whitespace: an operand, an annotation
\* or both with whitespace between them, then the attributes
expressionOf(s, operand, annotation, attributes) ==
    IF ~attributes.ok THEN Read(FALSE, NoExpression, s)
    ELSE closeBrace(s, ExpressionWith(operand, annotation, attributes.v), attributes.rest)
annotatedExpression(s, operand, annotation) ==
    IF ~annotation.ok THEN Read(FALSE, NoExpression, s)
    ELSE expressionOf(s, operand, annotation.v, parseAttributes(annotation.rest))
operandExpression(s, operand) ==
    IF ~operand.ok THEN Read(FALSE, NoExpression, s)
    ELSE IF skipWhitespace(operand.rest) /= operand.rest
            /\ NextChar(operand.rest) \in AnnotationStart
    THEN annotatedExpression(s, operand.v, parseAnnotation(skipWhitespace(operand.rest)))
    ELSE expressionOf(s, operand.v, NoAnnotation, parseAttributes(operand.rest))
parseExpression(s) ==
    IF s = <<>> THEN Read(FALSE, NoExpression, s)
    ELSE IF Head(s) \in ValueStart THEN operandExpression(s, parseValue(s))
    ELSE IF Head(s) \in AnnotationStart THEN annotatedExpression(s, NoValue, parseAnnotation(s))
    ELSE Read(FALSE, NoExpression, s)

\* a markup, at its # or /: open or self-closing with options and attributes, or closing
\* with attributes
markupEnd(s, typ, identifier, options, attributes) ==
    IF ~attributes.ok THEN Read(FALSE, Markup, s)
    ELSE IF typ = "Open" /\ NextChar(attributes.rest) = "/"
    THEN IF StartsWith(skipWhitespace(attributes.rest), <<"/", "}">>)
         THEN Read(TRUE,
                   MarkupTyped("SelfClose", identifier.namespace, identifier.name, options,
                               attributes.v),
                   Drop(skipWhitespace(attributes.rest), 2))
         ELSE Read(FALSE, Markup, s)
    ELSE closeBrace(s, MarkupTyped(typ, identifier.namespace, identifier.name, options,
                                   attributes.v),
                    attributes.rest)
markupOptions(s, identifier, options) ==
    IF ~options.ok THEN Read(FALSE, Markup, s)
    ELSE markupEnd(s, "Open", identifier, options.v, parseAttributes(options.rest))
markupFrom(s, typ, identifier) ==
    IF ~identifier.ok THEN Read(FALSE, Markup, s)
    ELSE IF typ = "Open" THEN markupOptions(s, identifier.v, parseOptions(identifier.rest))
    ELSE markupEnd(s, "Close", identifier.v, <<>>, parseAttributes(identifier.rest))
parseMarkup(s) ==
    markupFrom(s, IF Head(s) = "#" THEN "Open" ELSE "Close", parseIdentifier(Tail(s)))

\* a part of a pattern: a placeholder, that is an expression or a markup, or text with
\* the escapes removed
expressionPart(expression) ==
    Read(expression.ok, ExpressionPart(expression.v), expression.rest)
textPart(run) == Read(run.ok, Text(run.v), run.rest)
parsePlaceholder(s) ==
    IF s /= <<>> /\ Head(s) \in {"#", "/"} THEN parseMarkup(s)
    ELSE expressionPart(parseExpression(s))
parsePart(s) ==
    IF Head(s) = "{" THEN parsePlaceholder(skipWhitespace(Tail(s)))
    ELSE textPart(readRun(s, {"{", "}"}, {"\\", "{", "}"}))

\* a pattern: its parts up to the end of the text, or up to the }} of a quoted pattern
RECURSIVE parsePattern(_, _)
patternAfter(s, quoted, part) ==
    IF ~part.ok THEN Read(FALSE, <<>>, s) ELSE prepend(part, parsePattern(part.rest, quoted))
parsePattern(s, quoted) ==
    IF s = <<>> THEN Read(~quoted, <<>>, s)
    ELSE IF Head(s) = "}"
    THEN IF quoted /\ StartsWith(s, <<"}", "}">>) THEN Read(TRUE, <<>>, Drop(s, 2))
         ELSE Read(FALSE, <<>>, s)
    ELSE patternAfter(s, quoted, parsePart(s))

\* a quoted pattern: a pattern between {{ and }}
parseQuotedPattern(s) ==
    IF StartsWith(s, <<"{", "{">>) THEN parsePattern(Drop(s, 2), TRUE)
    ELSE Read(FALSE, <<>>, s)

\* the expressions of a reserved statement or the selectors of a matcher, whitespace
\* allowed before each one
RECURSIVE parseExpressions(_)
expressionsAfter(s, expression) ==
    IF ~expression.ok THEN Read(FALSE, <<>>, s)
    ELSE prepend(expression, parseExpressions(expression.rest))
parseExpressions(s) ==
    IF NextChar(s) /= "{" THEN Read(TRUE, <<>>, s)
    ELSE IF StartsWith(skipWhitespace(s), <<"{", "{">>) THEN Read(TRUE, <<>>, s)
    ELSE expressionsAfter(s, parseExpression(skipWhitespace(Tail(skipWhitespace(s)))))
\* one expression at least
someExpressions(s, expressions) ==
    IF expressions.ok /\ expressions.v = <<>> THEN Read(FALSE, <<>>, s) ELSE expressions

\* a key of a variant: a literal or the catch-all *
parseKey(s) ==
    IF s /= <<>> /\ Head(s) = "*" THEN Read(TRUE, CatchAllKey, Tail(s)) ELSE parseLiteral(s)
KeyStart == (ValueStart \ {"$"}) \cup {"*"}

\* the keys of a variant, whitespace between them
RECURSIVE parseKeys(_)
keysAfter(s, key) ==
    IF ~key.ok THEN Read(FALSE, <<>>, s)
    ELSE IF skipWhitespace(key.rest) /= key.rest /\ NextChar(key.rest) \in KeyStart
    THEN prepend(key, parseKeys(skipWhitespace(key.rest)))
    ELSE Read(TRUE, <<key.v>>, key.rest)
parseKeys(s) == keysAfter(s, parseKey(s))

\* a variant: its keys and its quoted pattern
variantOf(s, keys, quotedPattern) ==
    Read(quotedPattern.ok, Variant(keys, quotedPattern.v), quotedPattern.rest)
variantFrom(s, keys) ==
    IF ~keys.ok THEN Read(FALSE, Variant(<<>>, <<>>), s)
    ELSE variantOf(s, keys.v, parseQuotedPattern(skipWhitespace(keys.rest)))
parseVariant(s) == variantFrom(s, parseKeys(s))

\* the variants of a matcher, whitespace allowed before each one, up to the end
RECURSIVE parseVariants(_)
variantsAfter(s, variant) ==
    IF ~variant.ok THEN Read(FALSE, <<>>, s) ELSE prepend(variant, parseVariants(variant.rest))
parseVariants(s) ==
    IF NextChar(s) = "" THEN Read(TRUE, <<>>, s)
    ELSE variantsAfter(s, parseVariant(skipWhitespace(s)))

\* a matcher, after .match: one selector at least, and one variant at least
matcherOf(s, selectors, variants) ==
    IF ~variants.ok THEN Read(FALSE, <<>>, s)
    ELSE IF variants.v = <<>> THEN Read(FALSE, <<>>, s)
    ELSE Read(TRUE, [MatchStatements |-> selectors, Variants |-> variants.v], variants.rest)
matcherFrom(s, selectors) ==
    IF ~selectors.ok THEN Read(FALSE, <<>>, s)
    ELSE matcherOf(s, selectors.v, parseVariants(selectors.rest))
parseMatcher(s) == matcherFrom(s, someExpressions(s, parseExpressions(s)))

\* an expression with its opening brace, after whitespace
parseBracedExpression(s) ==
    IF NextChar(s) /= "{" THEN Read(FALSE, NoExpression, s)
    ELSE parseExpression(skipWhitespace(Tail(skipWhitespace(s))))

\* .input: an expression whose operand is a variable
inputDeclaration(s, expression) ==
    IF ~expression.ok THEN Read(FALSE, ReservedStatement, s)
    ELSE IF expression.v.operand.k /= "variable" THEN Read(FALSE, ReservedStatement, s)
    ELSE Read(TRUE, InputDeclaration(expression.v), expression.rest)

\* .local: whitespace, a variable, = and an expression
localOf(s, name, expression) ==
    Read(expression.ok, LocalDeclaration(name, expression.v), expression.rest)
localFrom(s, name) ==
    IF ~name.ok THEN Read(FALSE, ReservedStatement, s)
    ELSE IF NextChar(name.rest) /= "=" THEN Read(FALSE, ReservedStatement, s)
    ELSE localOf(s, name.v.s, parseBracedExpression(Tail(skipWhitespace(name.rest))))
localDeclaration(s) ==
    IF skipWhitespace(s) = s THEN Read(FALSE, ReservedStatement, s)
    ELSE IF NextChar(s) /= "$" THEN Read(FALSE, ReservedStatement, s)
    ELSE localFrom(s, variable(readName(Tail(skipWhitespace(s)))))

\* a reserved statement: after whitespace a reserved body, and one expression at least
reservedStatementOf(s, keyword, reservedBody, expressions) ==
    Read(expressions.ok, ReservedStatementWith(keyword, reservedBody, expressions.v),
         expressions.rest)
reservedStatementFrom(s, keyword, reservedBody) ==
    IF ~reservedBody.ok THEN Read(FALSE, ReservedStatement, s)
    ELSE reservedStatementOf(s, keyword, reservedBody.v,
                             someExpressions(s, parseExpressions(reservedBody.rest)))
reservedStatement(s, keyword) ==
    IF skipWhitespace(s) = s THEN reservedStatementFrom(s, keyword, Read(TRUE, <<>>, s))
    ELSE reservedStatementFrom(s, keyword, parseReservedBody(s))

\* a declaration, after its keyword
parseDeclaration(s, keyword) ==
    IF keyword = <<"i", "n", "p", "u", "t">> THEN inputDeclaration(s, parseBracedExpression(s))
    ELSE IF keyword = <<"l", "o", "c", "a", "l">> THEN localDeclaration(s)
    ELSE reservedStatement(s, keyword)

\* a complex message: declarations, whitespace allowed after each one, and the body, a
\* quoted pattern or a matcher, at the end of the text
RECURSIVE parseComplexMessage(_, _)
quotedPatternBody(s, declarations, quotedPattern) ==
    IF ~quotedPattern.ok THEN Read(FALSE, NilMessage, s)
    ELSE IF quotedPattern.rest /= <<>> THEN Read(FALSE, NilMessage, s)
    ELSE Read(TRUE, ComplexPattern(declarations, quotedPattern.v), <<>>)
matcherBody(s, declarations, matcher) ==
    IF ~matcher.ok THEN Read(FALSE, NilMessage, s)
    ELSE IF matcher.rest /= <<>> THEN Read(FALSE, NilMessage, s)
    ELSE Read(TRUE, ComplexMatcher(declarations, matcher.v.MatchStatements, matcher.v.Variants),
              <<>>)
declarationThen(s, declarations, declaration) ==
    IF ~declaration.ok THEN Read(FALSE, NilMessage, s)
    ELSE parseComplexMessage(skipWhitespace(declaration.rest),
                             Append(declarations, declaration.v))
statementFrom(s, declarations, keyword) ==
    IF ~keyword.ok THEN Read(FALSE, NilMessage, s)
    ELSE IF keyword.v = <<"m", "a", "t", "c", "h">>
    THEN matcherBody(s, declarations, parseMatcher(keyword.rest))
    ELSE declarationThen(s, declarations, parseDeclaration(keyword.rest, keyword.v))
parseComplexMessage(s, declarations) ==
    IF s = <<>> THEN Read(FALSE, NilMessage, s)
    ELSE IF Head(s) = "." THEN statementFrom(s, declarations, readName(Tail(s)))
    ELSE quotedPatternBody(s, declarations, parseQuotedPattern(s))

\* a simple message: a pattern up to the end of the text
simpleMessage(s, parts) ==
    IF parts.ok THEN Read(TRUE, SimpleMessage(parts.v), <<>>) ELSE Read(FALSE, NilMessage, s)

\* Parse: the message is complex when its first character after the whitespace is a
\* period or it starts with {{ there, and simple otherwise; the AST, or a syntax error
parse(source) ==
    IF NextChar(source) = "." \/ StartsWith(skipWhitespace(source), <<"{", "{">>)
    THEN parseComplexMessage(skipWhitespace(source), <<>>)
    ELSE simpleMessage(source, parsePattern(source, FALSE))

\* the variables of a render, which parsing and printing leave alone
renderVars == <<input, variables, declVars, patternVars, matcherVars, calls, evaluated,
                rangeFirst, locale, callerOptions, earlier, other>>

\* Parse(text)
Parse ==
    /\ pc = "text"
    /\ ast' = parse(text).v
    /\ err' = (IF parse(text).ok THEN {} ELSE {"Syntax"})
    /\ pc' = (IF parse(text).ok THEN "parsed" ELSE "rejected")
    /\ UNCHANGED <<out, text, reparsed, renderVars>>

\* AST.String
ASTString ==
    /\ pc = "parsed"
    /\ out' = (IF Panics(MessageString(ast)) THEN out ELSE MessageString(ast))
    /\ pc' = (IF Panics(MessageString(ast)) THEN "panic" ELSE "printed")
    /\ UNCHANGED <<ast, err, text, reparsed, renderVars>>

\* Parse, of the printed text
Reparse ==
    /\ pc = "printed"
    /\ reparsed' = parse(out).v
    /\ err' = (IF parse(out).ok THEN {} ELSE {"Syntax"})
    /\ pc' = "reparsed"
    /\ UNCHANGED <<ast, out, text, renderVars>>

-----------------------------------------------------------------------------
(* Texts to parse: text with escapes, an expression with or without an     *)
(* operand and with a function or an annotation whose body has quoted      *)
(* literals and reserved text, with and without whitespace between them,   *)
(* the inputs of the parser's tests, and a text for each production        *)

MaxBodyParts == 2

BodyPartTexts == {<<"a">>, <<"b">>, <<"|", "q", "|">>, <<"\\", "{">>}
BodyTexts ==
    {sliceToString(parts, sep) :
        parts \in SeqsUpTo(BodyPartTexts, MaxBodyParts), sep \in {<<>>, <<" ">>}}
OperandTexts == {<<>>, <<"$", "x", " ">>, <<"|", "q", "|", " ">>, <<"a", " ">>}
AnnotationTexts ==
    {<<>>, <<":", "f">>}
    \cup {start \o reservedBody : start \in {<<"^">>, <<"!">>}, reservedBody \in BodyTexts}
ExpressionTexts ==
    {<<"{">> \o lead \o operand \o annotation \o <<"}">> :
        lead \in {<<>>, <<" ">>}, operand \in OperandTexts, annotation \in AnnotationTexts}
\* inputs of TestParseSimpleMessage and TestParseComplexMessage
TestParseTexts ==
    {
    \* text only with escaped chars
    <<"H", "e", "l", "l", "o", ",", " ", "\\", "{", "W", "o", "r", "l", "d", "!", "\\",
      "}">>,
    \* variable expression with annotation options and attributes
    <<"H", "e", "l", "l", "o", ",", " ", "{", " ", "$", "v", "a", "r", "i", "a", "b",
      "l", "e", " ", ":", "f", "u", "n", "c", "t", "i", "o", "n", " ", "o", "p", "t",
      "i", "o", "n", "1", " ", "=", " ", "-", "3", ".", "1", "4", " ", "n", "s", ":",
      "o", "p", "t", "i", "o", "n", "2", " ", "=", " ", "|", "v", "a", "l", "u", "e",
      "2", "|", " ", "o", "p", "t", "i", "o", "n", "3", " ", "=", " ", "$", "v", "a",
      "r", "i", "a", "b", "l", "e", "2", " ", "@", "a", "t", "t", "r", "1", " ", "=",
      " ", "a", "t", "t", "r", "1", "}", " ", "W", "o", "r", "l", "d", "!">>,
    \* unquoted scientific notation number literal expression
    <<"H", "e", "l", "l", "o", ",", " ", "{", " ", "1", "e", "3", " ", "}", " ", " ",
      "W", "o", "r", "l", "d", "!">>,
    \* quoted name literal expression with annotation and options
    <<"H", "e", "l", "l", "o", ",", " ", "{", " ", "|", "n", "a", "m", "e", "|", " ",
      ":", "f", "u", "n", "c", "t", "i", "o", "n", " ", "n", "s", "1", ":", "o", "p",
      "t", "i", "o", "n", "1", " ", "=", " ", "-", "1", " ", "n", "s", "2", ":", "o",
      "p", "t", "i", "o", "n", "2", " ", "=", " ", "1", " ", "o", "p", "t", "i", "o",
      "n", "3", " ", "=", " ", "|", "v", "a", "l", "u", "e", "3", "|", " ", "}", " ",
      "W", "o", "r", "l", "d", "!">>,
    \* function expression with options and namespace
    <<"H", "e", "l", "l", "o", " ", "{", " ", ":", "n", "a", "m", "e", "s", "p", "a",
      "c", "e", ":", "f", "u", "n", "c", "t", "i", "o", "n", " ", "n", "a", "m", "e",
      "s", "p", "a", "c", "e", ":", "o", "p", "t", "i", "o", "n", "9", "9", "9", " ",
      "=", " ", "9", "9", "9", " ", "}", " ", "W", "o", "r", "l", "d", "!">>,
    \* private use and reserved annotation
    <<"H", "e", "l", "l", "o", " ", "{", " ", "$", "h", "e", "y", " ", "^", "p", "r",
      "i", "v", "a", "t", "e", " ", "}", "{", " ", "!", "|", "r", "e", "s", "e", "r",
      "v", "e", "d", "|", " ", "\\", "|", "h", "e", "y", "\\", "|", " ", "\\", "{",
      " ", "@", "v", " ", "@", "k", "=", "2", " ", "@", "l", ":", "l", "=", "$", "s",
      "}", " ", "W", "o", "r", "l", "d", "!">>,
    \* markup
    <<"I", "t", " ", "i", "s", " ", "a", " ", "{", "#", "b", "u", "t", "t", "o", "n",
      " ", "o", "p", "t", "1", "=", "v", "a", "l", "1", " ", "@", "a", "t", "t", "r",
      "1", "=", "v", "a", "l", "1", " ", "}", " ", "b", "u", "t", "t", "o", "n", " ",
      "{", " ", "/", "b", "u", "t", "t", "o", "n", " ", "}", " ", "t", "h", "i", "s",
      " ", "i", "s", " ", "a", " ", "{", " ", "#", "b", "r", " ", "/", "}", " ", "s",
      "o", "m", "e", "t", "h", "i", "n", "g", " ", "e", "l", "s", "e", ",", " ", "{",
      "#", "n", "s", ":", "t", "a", "g", "1", "}", "{", "#", "t", "a", "g", "2", "}",
      "t", "e", "x", "t", "{", " ", "#", "i", "m", "g", " ", "/", "}", "{", "/", "t",
      "a", "g", "2", "}", "{", "/", "n", "s", ":", "t", "a", "g", "1", "}">>,
    \* no declarations
    <<"{", "{", "H", "e", "l", "l", "o", ",", " ", "{", " ", "|", "l", "i", "t", "e",
      "r", "a", "l", "|", " ", "}", " ", "W", "o", "r", "l", "d", "!", "}", "}">>,
    \* all declarations
    <<".", "i", "n", "p", "u", "t", "{", "$", "i", "n", "p", "u", "t", " ", ":", "n",
      "u", "m", "b", "e", "r", " ", "@", "a", "}", "\n", ".", "i", "n", "p", "u", "t",
      " ", "{", " ", "$", "i", "n", "p", "u", "t", "2", " ", "^", "|", "q", "u", "o",
      "t", "|", " ", "@", "b", "=", "c", "}", "\n", ".", "i", "n", "p", "u", "t", " ",
      "{", " ", "$", "i", "n", "p", "u", "t", "3", " ", "!", " ", "h", "e", "y", " ",
      "h", "e", "y", " ", "@", "c", "=", "1", " ", "@", "d", "=", "2", "}", "\n", ".",
      "l", "o", "c", "a", "l", " ", "$", "l", "o", "c", "a", "l", "1", "=", "{", "1",
      "}", "\n", ".", "l", "o", "c", "a", "l", " ", "$", "l", "o", "c", "a", "l", "2",
      "=", "{", "|", "2", "|", " ", "^", "p", "r", "i", "v", "a", "t", "e", " ", "@",
      "a", " ", "@", "b", "=", "2", "}", "\n", ".", "l", "o", "c", "a", "l", " ", "$",
      "l", "o", "c", "a", "l", "3", " ", "=", " ", "{", " ", ">", " ", "r", "e", "s",
      "e", "r", "v", "e", "d", "}", "\n", ".", "r", "e", "s", "e", "r", "v", "e", "d",
      "1", " ", "{", "$", "r", "e", "s", "e", "r", "v", "e", "d", "1", "}", "\n", ".",
      "r", "e", "s", "e", "r", "v", "e", "d", "2", " ", "h", "e", "y", " ", "|", "q",
      "u", "o", "t", "|", " ", "h", "e", "y", " ", "{", " ", "|", "r", "e", "s", "e",
      "r", "v", "e", "d", "|", " ", ":", "f", "u", "n", "c", " ", "}", "\n", ".", "r",
      "e", "s", "e", "r", "v", "e", "d", "3", " ", "|", "b", "o", "d", "y", "|", " ",
      "|", "b", "o", "d", "y", "2", "|", " ", "{", "$", "e", "x", "p", "r", "1", "}",
      " ", "{", "|", "e", "x", "p", "r", "2", "|", "}", " ", "{", " ", ":", "e", "x",
      "p", "r", "3", " ", "}", " ", "{", " ", "$", "e", "x", "p", "r", "4", " ", "^",
      "h", "e", "y", " ", "@", "b", "e", "e", "p", " ", "@", "b", "o", "o", "p", "}",
      "\n", "{", "{", "T", "e", "x", "t", "}", "}">>,
    \* simple matcher one line
    <<".", "m", "a", "t", "c", "h", " ", "{", " ", "$", "v", "a", "r", "i", "a", "b",
      "l", "e", " ", ":", "n", "u", "m", "b", "e", "r", " ", "}", " ", "1", " ", "{",
      "{", "H", "e", "l", "l", "o", " ", "{", " ", "$", "v", "a", "r", "i", "a", "b",
      "l", "e", "}", " ", "w", "o", "r", "l", "d", "}", "}", " ", "*", " ", "{", "{",
      "H", "e", "l", "l", "o", " ", "{", " ", "$", "v", "a", "r", "i", "a", "b", "l",
      "e", " ", "}", " ", "w", "o", "r", "l", "d", "s", "}", "}">>,
    \* matcher with declarations
    <<".", "l", "o", "c", "a", "l", " ", "$", "v", "a", "r", "1", " ", "=", " ", "{",
      " ", "m", "a", "l", "e", " ", "}", "\n", ".", "l", "o", "c", "a", "l", " ", "$",
      "v", "a", "r", "2", " ", "=", " ", "{", " ", "|", "f", "e", "m", "a", "l", "e",
      "|", " ", "}", "\n", ".", "m", "a", "t", "c", "h", " ", "{", " ", ":", "g", "e",
      "n", "d", "e", "r", " ", "}", "\n", "m", "a", "l", "e", " ", "{", "{", "H", "e",
      "l", "l", "o", " ", "s", "i", "r", "!", "}", "}", "\n", "|", "f", "e", "m", "a",
      "l", "e", "|", " ", "{", "{", "H", "e", "l", "l", "o", " ", "m", "a", "d", "a",
      "m", "!", "}", "}", "\n", "*", " ", "{", "{", "H", "e", "l", "l", "o", " ", "{",
      " ", "$", "v", "a", "r", "1", " ", "}", " ", "o", "r", " ", "{", " ", "$", "v",
      "a", "r", "2", " ", "}", "!", "}", "}">>,
    \* double matcher
    <<".", "m", "a", "t", "c", "h", " ", "{", " ", "$", "v", "a", "r", "1", " ", "}",
      " ", "{", " ", "$", "v", "a", "r", "2", " ", "}", "\n", "y", "e", "s", " ", "y",
      "e", "s", " ", "{", "{", "H", "e", "l", "l", "o", " ", "b", "e", "a", "u", "t",
      "i", "f", "u", "l", " ", "w", "o", "r", "l", "d", "!", "}", "}", "\n", "y", "e",
      "s", " ", "n", "o", " ", "{", "{", "H", "e", "l", "l", "o", " ", "b", "e", "a",
      "u", "t", "i", "f", "u", "l", "!", "}", "}", "\n", "n", "o", " ", "y", "e", "s",
      " ", "{", "{", "H", "e", "l", "l", "o", " ", "w", "o", "r", "l", "d", "!", "}",
      "}", "\n", "n", "o", " ", "n", "o", " ", "{", "{", "H", "e", "l", "l", "o", "!",
      "}", "}">>
    }

\* one text for each production of the grammar, and texts that are no messages
GrammarTexts ==
    {
    \* a number with a fraction and an exponent, as operand and option value: {-1.5e1 :f a=0.25 b=1e-2}
    <<"{", "-", "1", ".", "5", "e", "1", " ", ":", "f", " ", "a", "=", "0", ".", "2",
      "5", " ", "b", "=", "1", "e", "-", "2", "}">>,
    \* a namespaced option and an attribute without a value: {$x :n:f n:o=v @a}
    <<"{", "$", "x", " ", ":", "n", ":", "f", " ", "n", ":", "o", "=", "v", " ", "@",
      "a", "}">>,
    \* an attribute with a literal value on a literal operand: {|q| @a=|v| @n:b=1}
    <<"{", "|", "q", "|", " ", "@", "a", "=", "|", "v", "|", " ", "@", "n", ":", "b",
      "=", "1", "}">>,
    \* markup that opens, closes and closes itself: {#b o=1}x{/b}{#n:i @a /}
    <<"{", "#", "b", " ", "o", "=", "1", "}", "x", "{", "/", "b", "}", "{", "#", "n",
      ":", "i", " ", "@", "a", " ", "/", "}">>,
    \* a local declaration before a quoted pattern: .local $x={1}{{a{$x}}}
    <<".", "l", "o", "c", "a", "l", " ", "$", "x", "=", "{", "1", "}", "{", "{", "a",
      "{", "$", "x", "}", "}", "}">>,
    \* a reserved statement with a body: .r a |q| {$x}{{a}}
    <<".", "r", " ", "a", " ", "|", "q", "|", " ", "{", "$", "x", "}", "{", "{", "a",
      "}", "}">>,
    \* a matcher with a catch-all variant: .match{$x :f}1 {{a}}* {{b}}
    <<".", "m", "a", "t", "c", "h", "{", "$", "x", " ", ":", "f", "}", "1", " ", "{",
      "{", "a", "}", "}", "*", " ", "{", "{", "b", "}", "}">>,
    \* no closing brace: {$x
    <<"{", "$", "x">>,
    \* an option without a value: {:f a=}
    <<"{", ":", "f", " ", "a", "=", "}">>,
    \* text after a quoted pattern: {{a}} b
    <<"{", "{", "a", "}", "}", " ", "b">>,
    \* an input declaration of a literal: .input {1}{{a}}
    <<".", "i", "n", "p", "u", "t", " ", "{", "1", "}", "{", "{", "a", "}", "}">>,
    \* a matcher without variants: .match {$x}
    <<".", "m", "a", "t", "c", "h", " ", "{", "$", "x", "}">>,
    \* a number with an empty fraction: {1. }
    <<"{", "1", ".", " ", "}">>
    }

ParseTexts ==
    {<<"a", "\\", "{", "b">>, <<"{">>, <<"}">>, <<"a", "\\", "b">>}
    \cup {before \o e \o after : before \in {<<>>, <<"H", "i", " ">>}, e \in ExpressionTexts,
                                 after \in {<<>>, <<"!">>}}
    \cup TestParseTexts
    \cup GrammarTexts

InitParse == \E source \in ParseTexts : StartFrom(NilMessage, <<>>, NoExecuter, "text", source)

NextParse == Parse \/ ASTString \/ Reparse

SpecParse == InitParse /\ [][NextParse]_vars

\* C21: for every text the parser accepts, parsing the printed AST gives an AST that is
\* structurally equal to the first one, also when an annotation has a body of several
\* parts of reserved text and quoted literals.
C21_RoundTrip ==
    pc = "reparsed" => (err = {} /\ reparsed = ast)

-----------------------------------------------------------------------------
(* Printing one Text, QuotedLiteral or ReservedText *)

\* the characters the printer escapes in the node's context
EscapeSet(node) ==
    IF "p" \in DOMAIN node THEN {"\\", "{", "}"}
    ELSE IF node.k = "quoted" THEN {"\\", "|"}
    ELSE {"\\", "{", "}", "|"}

\* node.String(), of a PatternPart or of a Value
NodePrinted(node) ==
    IF "p" \in DOMAIN node THEN PatternPartString(node) ELSE ValueString(node)

\* Text.String, QuotedLiteral.String, ReservedText.String; a String that dereferences a
\* nil Value, of the node or below it, panics and nothing is printed
NodeString ==
    /\ pc = "node"
    /\ out' = (IF Panics(NodePrinted(ast)) THEN out ELSE NodePrinted(ast))
    /\ pc' = (IF Panics(NodePrinted(ast)) THEN "panic" ELSE "printed node")
    /\ UNCHANGED <<ast, err, text, reparsed, renderVars>>

\* the printed form without the bars of a quoted literal
Unquoted(node, printed) ==
    IF "p" \notin DOMAIN node /\ node.k = "quoted"
    THEN SubSeq(printed, 2, Len(printed) - 1)
    ELSE printed

\* a reader of the printed form removes the escapes: a backslash and a character of the
\* escape set give the character, and no character of the set stands without a backslash
Unescape ==
    /\ pc = "printed node"
    /\ reparsed' = readRun(Unquoted(ast, out), EscapeSet(ast) \ {"\\"}, EscapeSet(ast))
    /\ pc' = "unescaped"
    /\ UNCHANGED <<ast, out, err, text, renderVars>>

MaxValueLen == 3

ValueChars == {"a", "\\", "{", "}", "|"}
NodeValues == SeqsUpTo(ValueChars, MaxValueLen)
\* nodes whose String panics: a Value that is nil, and an expression of the pattern with
\* an option whose Value is nil
NilNodes ==
    {NoValue, ExpressionPart(Expression(NoValue, Function(sNumber, <<Option(sOpt, NoValue)>>)))}
Nodes == {Text(v) : v \in NodeValues} \cup {QuotedLiteral(v) : v \in NodeValues}
         \cup {ReservedText(v) : v \in NodeValues} \cup NilNodes
NodeValue(node) == IF "p" \in DOMAIN node THEN node.text ELSE node.s

InitNodes == \E node \in Nodes : StartFrom(node, <<>>, NoExecuter, "node", NodeValue(node))

NextNodes == NodeString \/ Unescape

SpecNodes == InitNodes /\ [][NextNodes]_vars

\* C22: the printed form of a Text, QuotedLiteral or ReservedText has a backslash before
\* each character of the escape set of its context and before no other character, so
\* removing the escapes gives the value back.
C22_EscapesExactlyTheSet ==
    pc = "unescaped" => reparsed = Read(TRUE, text, <<>>)

C22_Witness ==
    /\ pc = "unescaped"
    /\ "p" \notin DOMAIN ast
    /\ ast.k = "quoted"
    /\ text = <<"a", "|", "{">>
    /\ out = <<"|", "a", "\\", "|", "{", "|">>
    /\ reparsed.v = text

-----------------------------------------------------------------------------
(* The integer function: one call of integerFunc, next to the call of numberFunc it stands for *)

\* the operand of the call and the map of its options, resolved from the expression of the
\* call
CallOperand == resolveValue(ast.operand, <<>>).val
CallOptions(call) == resolveOptions(call.annotation.options, <<>>).val

\* the same options with maximumFractionDigits set to 0: every other key with its value,
\* no key of nil options
SameOptionsWithoutFraction(options) ==
    [k \in (IF options.nil THEN {} ELSE DOMAIN options.m) \cup {sMaximumFractionDigits} |->
        IF k = sMaximumFractionDigits THEN Num(0) ELSE options.m[k]]

\* numberFunc(operand, the same options with maximumFractionDigits 0, locale): the call
\* integer stands for; the range over the options of the next call can meet any key first
FormatNumber ==
    /\ pc = "call"
    /\ LET value == numberFunc(CallOperand, SameOptionsWithoutFraction(callerOptions), locale)
       IN  earlier' = [set |-> TRUE, out |-> value.val.s, err |-> value.err]
    /\ pc' = "number called"
    /\ rangeFirst' \in RangeFirstOfCall(ast)
    /\ UNCHANGED <<ast, out, err, text, reparsed, input, variables, declVars, patternVars,
                   matcherVars, calls, evaluated, locale, callerOptions, other>>

\* integerFunc(operand, options, locale): what it returns, and what it leaves in the map
\* of the caller
FormatInteger ==
    /\ pc = "number called"
    /\ LET value == integerFunc(CallOperand, callerOptions, locale)
       IN  /\ out' = value.val.s
           /\ err' = value.err
           /\ callerOptions' = value.options
    /\ pc' = "integer called"
    /\ rangeFirst' \in RangeFirstOfCall(ast)
    /\ UNCHANGED <<ast, text, reparsed, input, variables, declVars, patternVars, matcherVars,
                   calls, evaluated, locale, earlier, other>>

\* operands: none, numbers and a string; options: each of maximumFractionDigits,
\* signDisplay, style and currency is absent or has one of a few values, and there are
\* none, one or two names the function does not know
IntegerOperands ==
    {NoValue, NumberLiteral(-1), NumberLiteral(0), NumberLiteral(1), NumberLiteralOf(15, 1),
     NumberLiteralOf(-25, 1), NumberLiteralOf(12345, 1), QuotedLiteral(<<"a">>)}
OptionChoices(name, values) == {<<>>} \cup {<<Option(name, v)>> : v \in values}
IntegerOptions ==
    {fraction \o sign \o style \o unit \o unknown :
        fraction \in OptionChoices(sMaximumFractionDigits,
                                   {NumberLiteral(2), NumberLiteral(-1), QuotedLiteral(<<"1">>),
                                    NameLiteral(<<"x">>)}),
        sign \in OptionChoices(sSignDisplay, {NameLiteral(sAlways), NameLiteral(sNever),
                                              NameLiteral(<<"x">>)}),
        style \in OptionChoices(sStyle, {NameLiteral(sPercent)}),
        unit \in OptionChoices(sCurrency, {NameLiteral(<<"M", "X", "N">>),
                                           NameLiteral(<<"x", "x", "x">>),
                                           NameLiteral(<<"M", "X">>)}),
        unknown \in OptionChoices(sOpt, {NameLiteral(<<"x">>)})
                    \cup {<<Option(sOpt, NameLiteral(<<"x">>)),
                             Option(sFoo, NameLiteral(<<"x">>))>>}}
IntegerCalls ==
    {Expression(operand, Function(sInteger, options)) :
        operand \in IntegerOperands, options \in IntegerOptions}

\* the options of the caller: the map of the options of the call; a call without options
\* has nil or an empty map
CallerOptions(call) ==
    IF call.annotation.options = <<>> THEN {NilOptions, OptionsOf(<<>>)}
    ELSE {OptionsOf(CallOptions(call))}

InitInteger ==
    \E call \in IntegerCalls, loc \in Locales :
        \E options \in CallerOptions(call) :
            \E first \in RangeFirstOfCall(call) :
                StartIn(call, <<>>, NoExecuter, "call", <<>>, loc, options, first)

NextInteger == FormatNumber \/ FormatInteger

SpecInteger == InitInteger /\ [][NextInteger]_vars

\* the errors of a call that name an option number does not know
CallOptionErrors == {unsupportedOption(k) : k \in RangeFirstOfCall(ast)}

IntegerNamesOtherOption ==
    /\ pc = "integer called"
    /\ unsupportedOption(sOpt) \in earlier.err
    /\ unsupportedOption(sFoo) \in err

-----------------------------------------------------------------------------
(* Keys of the string selector: name, quoted and number literals *)

sOne == <<"1">>

\* the value of a literal key: a quoted literal without its bars and escapes
KeyValue(key) == IF key.k = "number" THEN FormatDecimal(key.n, key.scale) ELSE key.s

LiteralKeyFamily ==
    {NameLiteral(sYes), QuotedLiteral(sYes), NameLiteral(sNo), QuotedLiteral(sNo),
     NumberLiteral(1), QuotedLiteral(sOne)}

\* .match {$a :string} key {{V1}} * {{V2}}, alone or after .input {$a :string}
KeyMatchers ==
    {ComplexMatcher(decls, <<StringSelector(sA)>>, Variants(<< <<key>>, <<CatchAllKey>> >>)) :
        decls \in {<<>>, <<InputDeclaration(StringSelector(sA))>>},
        key \in LiteralKeyFamily}

KeyInputs ==
    {(sA :> v) : v \in {Str(sYes), Str(sNo), Str(QuotedLiteralString(sYes)), Str(sOne), Num(1)}}

InitKeys == \E message \in KeyMatchers, in \in KeyInputs : Start(message, in)

SpecKeys == InitKeys /\ [][Next]_vars

\* C24: under the string selector a variant key matches exactly when the value of the
\* key is equal, as a string, to the string form of the operand, so the quoted key |k|
\* and the name key k match the same operands.
C24_KeyMatchesByValue ==
    (pc = "done" /\ ast \in KeyMatchers) =>
        (out = VariantText(1) <=> KeyValue(ast.Variants[1].Keys[1]) = Sprint(input[sA]))

-----------------------------------------------------------------------------
(* The builder: programs of Text calls *)

\* the complex form of a pattern: the pattern in {{ and }}
QuotedPatternOf(s) == <<"{", "{">> \o s \o <<"}", "}">>

\* a faulty Build that emits the complex form only for a text whose first character is a
\* period
BuildLeadingPeriod(parts) ==
    IF SimpleMessageString(parts) /= <<>> /\ Head(SimpleMessageString(parts)) = "."
    THEN QuotedPatternOf(SimpleMessageString(parts))
    ELSE SimpleMessageString(parts)

\* Builder.Build of a program of Text calls: the texts escaped and joined; the result in
\* {{ and }} when it would be parsed as a declaration, which Parse does when the first
\* character that is not whitespace is a period
Build(parts) ==
    IF NextChar(SimpleMessageString(parts)) = "."
    THEN QuotedPatternOf(SimpleMessageString(parts))
    ELSE SimpleMessageString(parts)

\* NewBuilder().Text(..)...Build(): ast holds the texts the Text calls have added
BuildText ==
    /\ pc = "program"
    /\ out' = Build(ast.QuotedPattern)
    /\ pc' = "built"
    /\ UNCHANGED <<ast, err, text, reparsed, renderVars>>

\* the built message is the complex form when it opens a quoted pattern
IsQuoted(s) == Len(s) >= 4 /\ SubSeq(s, 1, 2) = <<"{", "{">> /\ SubSeq(s, Len(s) - 1, Len(s)) = <<"}", "}">>

\* Parse of the built message
ReadBuilt ==
    /\ pc = "built"
    /\ reparsed' = parse(out)
    /\ pc' = "read"
    /\ UNCHANGED <<ast, out, err, text, renderVars>>

MaxTextLen == 2
MaxTextCalls == 2

TextChars == {"a", ".", " ", "\\", "{", "}"}
TextPrograms ==
    {[i \in DOMAIN texts |-> Text(texts[i])] :
        texts \in SeqsUpTo(SeqsUpTo(TextChars, MaxTextLen), MaxTextCalls) \ {<<>>}}
ProgramText(parts) == Flatten([i \in DOMAIN parts |-> parts[i].text])

InitBuilder ==
    \E parts \in TextPrograms :
        StartFrom(SimpleMessage(parts), <<>>, NoExecuter, "program", ProgramText(parts))

NextBuilder == BuildText \/ ReadBuilt

SpecBuilder == InitBuilder /\ [][NextBuilder]_vars

\* the pattern a text is read as: one Text with the text, no part for the empty text
PatternOfText(s) == IF s = <<>> THEN <<>> ELSE <<Text(s)>>

\* the built message is read as a message without declarations whose pattern is the text
\* of the program: the backslash and the braces were escaped, whitespace was kept
ReadsAsText ==
    /\ reparsed.ok
    /\ reparsed.v.Declarations = <<>>
    /\ reparsed.v.body = "pattern"
    /\ reparsed.v.QuotedPattern = PatternOfText(text)

-----------------------------------------------------------------------------
(* The number function: signDisplay for the styles decimal and percent *)

SignDisplays == {sAuto, sAlways, sExceptZero, sNegative, sNever}

\* {$n :number signDisplay=.. style=..}, each option present or absent
SignExpressions ==
    {Expression(Variable(sN), Function(sNumber, sign \o style)) :
        sign \in OptionChoices(sSignDisplay, {NameLiteral(d) : d \in SignDisplays}),
        style \in OptionChoices(sStyle, {NameLiteral(sDecimal), NameLiteral(sPercent)})}

\* the expression as the whole pattern, and `.local $x = {expr} {{{ $x }}}`
SignMessages ==
    {SimpleMessage(<<ExpressionPart(e)>>) : e \in SignExpressions}
    \cup {ComplexPattern(<<LocalDeclaration(sX, e)>>,
                         <<ExpressionPart(Expression(Variable(sX), NoAnnotation))>>) :
            e \in SignExpressions}

\* the integers from -2 to 2, and -0.15, 0.15, -0.127 and 0.127 of Test_Number
SignOperands ==
    {Num(n) : n \in -2..2} \cup {NumOf(-15, 2), NumOf(15, 2), NumOf(-127, 3), NumOf(127, 3)}

InitSign == \E message \in SignMessages, value \in SignOperands : Start(message, (sN :> value))

SpecSign == InitSign /\ [][NextMessage]_vars

\* the :number expression of the message, and the value an option of it names
SignExpression ==
    IF ast.m = "simple" THEN ast.QuotedPattern[1].expr ELSE ast.Declarations[1].expr
OptionNamed(options, name, default) ==
    IF \E i \in DOMAIN options : options[i].name = name
    THEN (CHOOSE o \in {options[i] : i \in DOMAIN options} : o.name = name).value.s
    ELSE default

\* the output for signDisplay=auto, same operand and style
AutoOutput(value, style) ==
    numberFunc(value, (sSignDisplay :> Str(sAuto)) @@ (sStyle :> Str(style)), locale).val.s

\* C26: compared with the output for signDisplay=auto, which has a leading - only for
\* negative operands, always adds a leading + for every operand >= 0, exceptZero adds
\* a leading + only for operands > 0, never shows no sign, and negative operands keep
\* their - under always and exceptZero; for the styles decimal and percent.
C26_SignDisplay ==
    (pc = "done" /\ ast \in SignMessages) =>
        LET n == input[sN].n
            options == SignExpression.annotation.options
            sign == OptionNamed(options, sSignDisplay, sAuto)
            auto == AutoOutput(input[sN], OptionNamed(options, sStyle, sDecimal))
        IN  /\ err = {}
            /\ (Head(auto) = "-") <=> (n < 0)
            /\ sign = sAuto => out = auto
            /\ sign = sAlways => out = (IF n >= 0 THEN <<"+">> \o auto ELSE auto)
            /\ sign = sExceptZero => out = (IF n > 0 THEN <<"+">> \o auto ELSE auto)
            /\ sign = sNever => (out = (IF n < 0 THEN Tail(auto) ELSE auto)
                                 /\ Head(out) \notin {"+", "-"})

C26_Witness ==
    /\ pc = "done"
    /\ ast = SimpleMessage(<<ExpressionPart(Expression(Variable(sN),
                Function(sNumber, <<Option(sSignDisplay, NameLiteral(sAlways)),
                                    Option(sStyle, NameLiteral(sPercent))>>)))>>)
    /\ input[sN] = Num(0)
    /\ out = <<"+", "0", "%">>

-----------------------------------------------------------------------------
(* Variants that survive filtering *)

\* C27: whenever all selectors of a matcher resolve, at least one variant survives
\* filtering, so selectBestVariant does not read the first element of an empty list and
\* no key access Keys[i] is out of range, also for a matcher with no catch-all variant
\* whose keys match none of the selector results.
C27_VariantSurvives ==
    /\ pc \in {"sort", "sorting"} => filtered /= <<>>
    /\ pc /= "panic"

-----------------------------------------------------------------------------
(* The declarations after the one resolveDeclarations stops at *)

\* the error declaration i gives when every declaration before it has resolved
DeclarationError(i) ==
    IF ast.Declarations[i].d = "reserved" THEN {"UnsupportedStatement"}
    ELSE IF Redeclares(i) THEN {"DuplicateDeclaration"}
    ELSE resolveExpression(ast.Declarations[i].expr,
                           BindingsAfter(ast.Declarations, i - 1, input)).err

\* the first declaration that fails or is a reserved statement; one more than the number
\* of declarations when there is none
FirstStop ==
    LET failing == {i \in 1..Len(ast.Declarations) : DeclarationError(i) /= {}}
    IN  IF failing = {} THEN Len(ast.Declarations) + 1
        ELSE CHOOSE i \in failing : \A k \in failing : i <= k

\* the variables declared after the stop and by no declaration before it
LaterVariables ==
    {ast.Declarations[k].variable :
        k \in {i \in (FirstStop + 1)..Len(ast.Declarations) : ast.Declarations[i].d /= "reserved"}}
    \ {ast.Declarations[k].variable :
        k \in {i \in 1..(FirstStop - 1) : ast.Declarations[i].d /= "reserved"}}

\* the declarations are over, and the stop was benign: the body is rendered
StoppedBenign ==
    /\ ast.m = "complex"
    /\ pc \notin {"ready", "declarations"}
    /\ FirstStop <= Len(ast.Declarations)
    /\ benignDeclarationError(DeclarationError(FirstStop))

\* no declaration after the stop is evaluated or bound, and after a benign stop the body
\* is rendered over the bindings made before the stop
StopsAtFirstFailure ==
    /\ \A k \in (FirstStop + 1)..Len(ast.Declarations) : ~Contains(evaluated, k)
    /\ (ast.m = "complex" /\ pc \notin {"ready", "declarations"} /\ FirstStop <= Len(ast.Declarations))
           => variables = BindingsAfter(ast.Declarations, FirstStop - 1, input)
    /\ StoppedBenign => pc \in {"body", "pattern", "done"}
    /\ (StoppedBenign /\ pc = "done") =>
           /\ pattern = ast.QuotedPattern
           /\ out = Flatten([i \in 1..Len(pattern) |-> Contribution(pattern[i])])

\* C28 as stated: resolveDeclarations stops at the first declaration that fails or is a
\* reserved statement; no declaration after it is evaluated or bound, also when the
\* failure is benign and the body is rendered, so the body sees the later variables as
\* unresolved.
C28_LaterVariablesUnresolved ==
    /\ StopsAtFirstFailure
    /\ StoppedBenign => \A v \in LaterVariables : v \notin DOMAIN variables

\* C28, amended: as stated, but the body sees a later variable as the input map binds
\* it, and as unresolved only when the input map does not bind it.
C28_LaterVariablesAsInInput ==
    /\ StopsAtFirstFailure
    /\ StoppedBenign =>
           \A v \in LaterVariables :
               /\ v \in DOMAIN variables <=> v \in DOMAIN input
               /\ v \in DOMAIN input => variables[v] = input[v]
    /\ (StoppedBenign /\ pc = "done") =>
           \A i \in 1..Len(pattern) :
               (pattern[i].p = "expression" /\ pattern[i].expr.operand.s \in LaterVariables
                /\ pattern[i].expr.operand.s \notin DOMAIN input)
                   => "UnresolvedVariable" \in err

\* a reserved statement, then .local $y = {|yes|}: the body {{value = { $x }{ $y }}} is
\* rendered with no input and writes the placeholder of $y
C28_Witness ==
    /\ pc = "done"
    /\ ast.Declarations = <<ReservedStatement,
                            LocalDeclaration(sY, Expression(QuotedLiteral(sYes), NoAnnotation))>>
    /\ ast.QuotedPattern = ValueOfXY
    /\ input = <<>>
    /\ evaluated = <<>>
    /\ out = sValue \o Placeholder(sX) \o Placeholder(sY)
    /\ "UnresolvedVariable" \in err

-----------------------------------------------------------------------------
(* The environment during a render *)

\* matchers after a declaration, and patterns and declarations with options
InitRender ==
    \/ \E message \in KeyMatchers, in \in KeyInputs : Start(message, in)
    \/ \E message \in OptionMessages, in \in OptionInputs : Start(message, in)

SpecRender == InitRender /\ [][Next]_vars

\* the step binds the variable of the declaration resolveDeclarations is at, and changes
\* no other binding
BindsDeclared ==
    /\ pc = "declarations"
    /\ declIdx <= Len(ast.Declarations)
    /\ ast.Declarations[declIdx].d /= "reserved"
    /\ DOMAIN variables' = DOMAIN variables \cup {ast.Declarations[declIdx].variable}
    /\ \A name \in DOMAIN variables \ {ast.Declarations[declIdx].variable} :
           variables'[name] = variables[name]

\* C29: during a render the only writes to the environment are the bindings made by
\* declaration resolution: resolving patterns, options, selectors and variants leaves it
\* unchanged, no name is removed from it, and the caller's input map is never modified,
\* Execute works on its own copy.
C29_OnlyDeclarationsWrite ==
    [][/\ input' = input
       /\ pc = "ready" => variables' = input
       /\ pc /= "ready" =>
              /\ DOMAIN variables \subseteq DOMAIN variables'
              /\ variables' /= variables => BindsDeclared]_vars

\* .input {$a :string} .match {$a :string} 1 {{V1}} * {{V2}} rendered with a = 1: the
\* declaration has bound a to the string, the input map holds the number
C29_Witness ==
    /\ pc = "done"
    /\ ast \in KeyMatchers
    /\ ast.Declarations /= <<>>
    /\ input = (sA :> Num(1))
    /\ variables = (sA :> Str(sOne))
    /\ out = VariantText(1)

-----------------------------------------------------------------------------
(* Expressions with a private-use or reserved annotation *)

UnsupportedAnnotations ==
    {PrivateUseAnnotation(<<"^">>), PrivateUseAnnotation(<<"&">>),
     ReservedAnnotation(<<"!">>), ReservedAnnotation(<<"%">>)}

\* no operand, a variable the input may bind to a string or a number, and literals
AnnotatedExpressions ==
    {Expression(operand, annotation) :
        operand \in {NoValue, Variable(sName), Variable(sN), QuotedLiteral(sYes), NumberLiteral(1)},
        annotation \in UnsupportedAnnotations \cup {NoAnnotation}}

\* `Hello, {expr}!`, as a simple message and as the body after .local $x = {1}
AnnotatedMessages ==
    {SimpleMessage(<<Text(sHello), ExpressionPart(e), Text(sBang)>>) : e \in AnnotatedExpressions}
    \cup {ComplexPattern(<<Local1>>, <<Text(sHello), ExpressionPart(e), Text(sBang)>>) :
            e \in AnnotatedExpressions}

InitAnnotated == \E message \in AnnotatedMessages, in \in PatternInputs : Start(message, in)

SpecAnnotated == InitAnnotated /\ [][NextMessage]_vars

\* the expression of the message
AnnotatedExpression == ast.QuotedPattern[2].expr

\* the render is over and its expression has a private-use or reserved annotation
RenderedUnsupported ==
    /\ pc = "done"
    /\ ast \in AnnotatedMessages
    /\ AnnotatedExpression.annotation.a \in {"privateUse", "reserved"}

\* the pattern is not aborted: with no operand the expression adds { sigil }, with an
\* operand the text the operand alone adds
UnsupportedContribution ==
    RenderedUnsupported =>
        out = sHello
              \o (IF AnnotatedExpression.operand.k = "nil"
                  THEN <<"{">> \o AnnotatedExpression.annotation.start \o <<"}">>
                  ELSE resolveExpression(Expression(AnnotatedExpression.operand, NoAnnotation),
                                         variables).s)
              \o sBang

\* C30 as stated: an expression with a private-use or reserved annotation is always
\* reported as UnsupportedExpression and never aborts the pattern; with no operand it
\* adds the placeholder { sigil }, with an operand the text the operand adds with no
\* annotation.
C30_AlwaysUnsupported ==
    /\ UnsupportedContribution
    /\ RenderedUnsupported => "UnsupportedExpression" \in err

\* C30, amended: as stated, but UnsupportedExpression is reported when the operand is
\* absent or resolves; for a variable operand that is not bound the render reports
\* UnresolvedVariable alone and the expression adds the placeholder of the variable.
C30_UnsupportedWhenOperandResolves ==
    /\ UnsupportedContribution
    /\ (RenderedUnsupported /\ ~Unbound(AnnotatedExpression.operand))
           => "UnsupportedExpression" \in err
    /\ (RenderedUnsupported /\ Unbound(AnnotatedExpression.operand))
           => (err = {"UnresolvedVariable"}
               /\ out = sHello \o Placeholder(AnnotatedExpression.operand.s) \o sBang)

\* `Hello, { $n ^}!` rendered with n = 3
C30_Witness ==
    /\ pc = "done"
    /\ ast = SimpleMessage(<<Text(sHello),
                             ExpressionPart(Expression(Variable(sN), PrivateUseAnnotation(<<"^">>))),
                             Text(sBang)>>)
    /\ sN \in DOMAIN input
    /\ out = sHello \o <<"3">> \o sBang
    /\ err = {"UnsupportedExpression"}

====
